---- MODULE Spec2Model ----
(***************************************************************************)
(* Model of the in-place memory allocators of mem-allocators:              *)
(*   - the facade (src/allocator.c),                                       *)
(*   - the segregated free-list allocator (src/segregated_freelist.c),     *)
(*   - the buddy allocator (src/buddy_allocator.c).                        *)
(*                                                                         *)
(* Addresses are plain integers.  The managed heap is modelled as memory   *)
(* of 32-bit cells (a sparse function, absent cells read as zero), so that *)
(* block headers and free-list nodes overlay each other exactly as they do *)
(* in the C structs (LP64 layout).  size_t arithmetic is modular, with a   *)
(* word of WordBits bits.                                                  *)
(***************************************************************************)
EXTENDS Integers, Sequences, FiniteSets, TLC

(***************************************************************************)
(* Bounds of the model                                                     *)
(***************************************************************************)
\* width of size_t in the model (the counters wrap modulo 2^WordBits)
WordBits == 12
\* number of facade calls in one behaviour
MaxSteps == 4
\* number of alloc/free calls in one behaviour of the pattern loop
MaxPatternSteps == 12
\* how far above an algorithm's smallest region the construction-only
\* specification goes
MaxExtra == 120
\* number of alloc/free calls in one behaviour of the segregated allocator alone
MaxSegSteps == 6
\* number of alloc/free calls in one behaviour of the reuse rounds
MaxReuseSteps == 5

SizeMod == 2 ^ WordBits

Add(a, b) == (a + b) % SizeMod

Sub(a, b) == ((a % SizeMod) - (b % SizeMod) + SizeMod) % SizeMod

NULL == 0

(***************************************************************************)
(* Program constants                                                       *)
(***************************************************************************)
ALLOCATOR_SEGREGATED_FREELIST == 0
ALLOCATOR_BUDDY == 1

ALLOCATOR_ALIGN == 16
BUDDY_MAX_ORDERS == 32
BUDDY_ALIGN == 16
ALIGN_SIZE == 8
NUM_SIZE_CLASSES == 8

\* 0xC0FFEE42 and 0xDEADBEEF, written as the int32 value of the same 32 bits
BUDDY_MAGIC == 0 - 1057001918
BLOCK_MAGIC == 0 - 559038737

\* sizeof of the C structs (LP64: 8-byte pointers and size_t, natural alignment)
SIZEOF_allocator_t == 144
SIZEOF_segregated_freelist_allocator_t == 88
SIZEOF_buddy_impl_t == 280
SIZEOF_buddy_block_header_t == 16
SIZEOF_buddy_free_block_t == 8
HEADER_SIZE == 24

SIZE_CLASSES ==
  [i \in 0..(NUM_SIZE_CLASSES - 1) |-> <<16, 32, 64, 128, 256, 512, 1024, 2048>>[i + 1]]

(***************************************************************************)
(* Memory: 32-bit cells addressed by byte address                          *)
(***************************************************************************)
Load32(m, a) == IF a \in DOMAIN m THEN m[a] ELSE 0

Store32(m, a, v) ==
  IF v = 0 THEN [x \in (DOMAIN m) \ {a} |-> m[x]]
  ELSE [x \in (DOMAIN m) \cup {a} |-> IF x = a THEN v ELSE m[x]]

\* a 64-bit value whose upper half is not zero, or whose lower half has bit 31
\* set, is far outside the model's address and size range
WILD == 0 - 1

Load64(m, a) ==
  IF Load32(m, a + 4) = 0 /\ Load32(m, a) >= 0 THEN Load32(m, a) ELSE WILD

Store64(m, a, v) == Store32(Store32(m, a, v), a + 4, 0)

\* the one-byte order field of buddy_block_header_t, at offset 4
Load8(m, a) == Load32(m, a) % 256

Store8(m, a, v) == Store32(m, a, (Load32(m, a) \div 256) * 256 + v)

(***************************************************************************)
(* Helpers shared by the three files                                       *)
(***************************************************************************)
align_up(p, alignment) == (p + (alignment - 1)) - ((p + (alignment - 1)) % alignment)

ZeroStats ==
  [total_allocations |-> 0, total_frees |-> 0, current_allocated |-> 0,
   peak_allocated |-> 0, current_requested |-> 0, peak_requested |-> 0,
   failed_allocations |-> 0, heap_size |-> 0]

\* mutant: the two byte counts are credited to the wrong counters
CountAlloc_swapped(s, committed, size) ==
  LET ca == Add(s.current_allocated, size)
      cr == Add(s.current_requested, committed)
  IN [s EXCEPT !.total_allocations = Add(@, 1),
               !.current_allocated = ca,
               !.peak_allocated = IF ca > @ THEN ca ELSE @,
               !.current_requested = cr,
               !.peak_requested = IF cr > @ THEN cr ELSE @]

\* mutant: the peaks are compared with the counters as they were before the
\* allocation was added
CountAlloc_stalePeak(s, committed, size) ==
  [s EXCEPT !.total_allocations = Add(@, 1),
            !.current_allocated = Add(@, committed),
            !.peak_allocated = IF s.current_allocated > @ THEN s.current_allocated ELSE @,
            !.current_requested = Add(@, size),
            !.peak_requested = IF s.current_requested > @ THEN s.current_requested ELSE @]

\* the statistics update that both allocators make on a successful allocation
CountAlloc(s, committed, size) ==
  LET ca == Add(s.current_allocated, committed)
      cr == Add(s.current_requested, size)
  IN [s EXCEPT !.total_allocations = Add(@, 1),
               !.current_allocated = ca,
               !.peak_allocated = IF ca > @ THEN ca ELSE @,
               !.current_requested = cr,
               !.peak_requested = IF cr > @ THEN cr ELSE @]

\* mutant: a free gives back the committed bytes but not the requested ones
CountFree_keepsRequested(s, committed, requested) ==
  [s EXCEPT !.total_frees = Add(@, 1),
            !.current_allocated = Sub(@, committed)]

\* mutant: a free lowers the peaks to the current values
CountFree_lowersPeaks(s, committed, requested) ==
  [s EXCEPT !.total_frees = Add(@, 1),
            !.current_allocated = Sub(@, committed),
            !.peak_allocated = Sub(s.current_allocated, committed),
            !.current_requested = Sub(@, requested),
            !.peak_requested = Sub(s.current_requested, requested)]

\* the statistics update that both allocators make on an accepted free
CountFree(s, committed, requested) ==
  [s EXCEPT !.total_frees = Add(@, 1),
            !.current_allocated = Sub(@, committed),
            !.current_requested = Sub(@, requested)]

\* mutant: a failed allocation is not counted
CountFailure_skipped(s) == s

CountFailure(s) == [s EXCEPT !.failed_allocations = Add(@, 1)]

(***************************************************************************)
(* Buddy allocator (src/buddy_allocator.c)                                 *)
(*                                                                         *)
(* The operators below work on a record st = [stats, impl, mem]: the       *)
(* facade's counters, the buddy_impl_t struct and the heap memory.         *)
(***************************************************************************)
RECURSIVE floor_log2_size(_)
floor_log2_size(x) == IF x \div 2 = 0 THEN 0 ELSE 1 + floor_log2_size(x \div 2)

\* mutant: one more than the floor, which overshoots at the powers of two
ceil_log2_size_overshoots(x) == IF x <= 1 THEN 0 ELSE floor_log2_size(x) + 1

ceil_log2_size(x) == IF x <= 1 THEN 0 ELSE floor_log2_size(x - 1) + 1

order_to_size(order) == (2 ^ order) % SizeMod

RECURSIVE min_order_loop(_, _, _)
min_order_loop(v, order, need) ==
  IF v < need THEN min_order_loop(v * 2, order + 1, need) ELSE order

compute_min_order ==
  LET need == IF SIZEOF_buddy_block_header_t > SIZEOF_buddy_free_block_t
              THEN SIZEOF_buddy_block_header_t ELSE SIZEOF_buddy_free_block_t
      order == min_order_loop(1, 0, need)
  IN IF order < 5 THEN 5 ELSE order

\* mutant: the block is handed out but stays on its list
pop_free_keepsBlock(st, order) ==
  [st |-> st, res |-> st.impl.free_lists[order]]

pop_free(st, order) ==
  LET blk == st.impl.free_lists[order]
  IN IF blk # NULL
     THEN [st |-> [st EXCEPT !.impl.free_lists[order] = Load64(st.mem, blk),
                             !.mem = Store64(@, blk, NULL)],
           res |-> blk]
     ELSE [st |-> st, res |-> NULL]

\* mutant: the block is linked behind the head of a list that is not empty
push_free_behindHead(st, order, block) ==
  LET head == st.impl.free_lists[order]
  IN IF head = NULL
     THEN [st EXCEPT !.mem = Store64(@, block, NULL),
                     !.impl.free_lists[order] = block]
     ELSE [st EXCEPT !.mem = Store64(Store64(@, block, Load64(st.mem, head)),
                                     head, block)]

push_free(st, order, block) ==
  [st EXCEPT !.mem = Store64(@, block, st.impl.free_lists[order]),
             !.impl.free_lists[order] = block]

\* the walk of try_remove_buddy_from_list: <<prev, cur>>, prev = NULL standing
\* for the list head; fuel bounds the walk by the number of blocks of the heap
RECURSIVE find_buddy(_, _, _, _, _)
find_buddy(m, prev, cur, buddy, fuel) ==
  IF cur = NULL \/ fuel = 0 THEN <<prev, NULL>>
  ELSE IF cur = buddy THEN <<prev, cur>>
  ELSE find_buddy(m, cur, Load64(m, cur), buddy, fuel - 1)

\* mutant: the buddy is never found on its list
try_remove_buddy_from_list_neverFinds(st, order, buddy) == [st |-> st, res |-> NULL]

try_remove_buddy_from_list(st, order, buddy) ==
  LET f == find_buddy(st.mem, NULL, st.impl.free_lists[order], buddy,
                      st.impl.heap_size \div order_to_size(st.impl.min_order))
      prev == f[1]
      cur == f[2]
  IN IF cur = NULL THEN [st |-> st, res |-> NULL]
     ELSE LET nxt == Load64(st.mem, cur)
              st1 == IF prev = NULL
                     THEN [st EXCEPT !.impl.free_lists[order] = nxt]
                     ELSE [st EXCEPT !.mem = Store64(@, prev, nxt)]
          IN [st |-> [st1 EXCEPT !.mem = Store64(@, cur, NULL)], res |-> buddy]

\* the search of buddy_allocator_init for the largest order that fits
\* mutant: the heap starts right behind the state struct, whatever the order
RECURSIVE init_max_order_unaligned(_, _, _, _)
init_max_order_unaligned(max_order, min_order, after_impl, region_end) ==
  IF max_order > min_order
  THEN LET blk_size == order_to_size(max_order)
           base == after_impl
       IN IF base + blk_size <= region_end
          THEN [base |-> base, heap_size |-> blk_size, max_order |-> max_order]
          ELSE init_max_order_unaligned(max_order - 1, min_order, after_impl, region_end)
  ELSE [base |-> NULL, heap_size |-> 0, max_order |-> 0]

RECURSIVE init_max_order(_, _, _, _)
init_max_order(max_order, min_order, after_impl, region_end) ==
  IF max_order > min_order
  THEN LET blk_size == order_to_size(max_order)
           base == align_up(after_impl, blk_size)
       IN IF base + blk_size <= region_end
          THEN [base |-> base, heap_size |-> blk_size, max_order |-> max_order]
          ELSE init_max_order(max_order - 1, min_order, after_impl, region_end)
  ELSE [base |-> NULL, heap_size |-> 0, max_order |-> 0]

\* [ok, st, impl_ptr]: impl_ptr is what allocator_set_impl stores in the facade
buddy_allocator_init(st, alloc, region, region_size) ==
  LET fail == [ok |-> FALSE, st |-> st, impl_ptr |-> NULL]
      impl_base == align_up(region, BUDDY_ALIGN)
      impl_prefix == impl_base - region
      usable == region_size - impl_prefix
      min_order == compute_min_order
      after_impl == align_up(impl_base + SIZEOF_buddy_impl_t, BUDDY_ALIGN)
      after_prefix == after_impl - impl_base
      region_end == impl_base + usable
      available == region_end - after_impl
      fl == floor_log2_size(available)
      max0 == IF fl >= BUDDY_MAX_ORDERS THEN BUDDY_MAX_ORDERS - 1 ELSE fl
      big == init_max_order(max0, min_order, after_impl, region_end)
      small_size == order_to_size(min_order)
      small_base == align_up(after_impl, small_size)
      chosen == IF big.base # NULL /\ big.heap_size # 0 THEN big
                ELSE [base |-> small_base, heap_size |-> small_size,
                      max_order |-> min_order]
      impl0 == [kind |-> "buddy", base |-> chosen.base, heap_size |-> chosen.heap_size,
                min_order |-> min_order, max_order |-> chosen.max_order,
                free_lists |-> [k \in 0..(BUDDY_MAX_ORDERS - 1) |-> NULL]]
      st1 == push_free([st EXCEPT !.impl = impl0], chosen.max_order, chosen.base)
  IN IF alloc = NULL \/ region = NULL \/ region_size < SIZEOF_buddy_impl_t + 256 THEN fail
     ELSE IF impl_prefix >= region_size THEN fail
     ELSE IF usable < SIZEOF_buddy_impl_t + 256 THEN fail
     ELSE IF after_prefix >= usable THEN fail
     ELSE IF available < order_to_size(min_order) THEN fail
     ELSE IF (big.base = NULL \/ big.heap_size = 0) /\ small_base + small_size > region_end
          THEN fail
     ELSE [ok |-> TRUE,
           st |-> [st1 EXCEPT !.stats.heap_size = chosen.heap_size],
           impl_ptr |-> impl_base]

\* mutant: the scan takes the highest non-empty list
find_order_highest(impl, found) ==
  IF \E k \in found..impl.max_order : impl.free_lists[k] # NULL
  THEN CHOOSE k \in found..impl.max_order :
         /\ impl.free_lists[k] # NULL
         /\ \A j \in (k + 1)..impl.max_order : impl.free_lists[j] = NULL
  ELSE impl.max_order + 1

\* the upward scan of buddy_allocator_alloc for a non-empty free list
RECURSIVE find_order(_, _)
find_order(impl, found) ==
  IF found <= impl.max_order /\ impl.free_lists[found] = NULL
  THEN find_order(impl, found + 1) ELSE found

\* mutant: the lower half is pushed and the upper half is kept
RECURSIVE split_block_keepsUpper(_, _, _, _)
split_block_keepsUpper(st, block, found, order) ==
  IF found > order
  THEN split_block_keepsUpper(push_free(st, found - 1, block),
                              block + order_to_size(found - 1), found - 1, order)
  ELSE st

\* mutant: the free half is taken one block size too far
RECURSIVE split_block_fullStep(_, _, _, _)
split_block_fullStep(st, block, found, order) ==
  IF found > order
  THEN split_block_fullStep(push_free(st, found - 1, block + order_to_size(found)),
                            block, found - 1, order)
  ELSE st

\* the splitting loop of buddy_allocator_alloc
RECURSIVE split_block(_, _, _, _)
split_block(st, block, found, order) ==
  IF found > order
  THEN split_block(push_free(st, found - 1, block + order_to_size(found - 1)),
                   block, found - 1, order)
  ELSE st

\* [st, res]; impl_ptr is the facade's impl pointer (allocator_get_impl)
\* mutant: the popped block is handed out unsplit, under the order of the request
buddy_allocator_alloc_noSplit(st, alloc, impl_ptr, size) ==
  LET impl == st.impl
      need == Add(size, SIZEOF_buddy_block_header_t)
      order0 == ceil_log2_size(need)
      order == IF order0 < impl.min_order THEN impl.min_order ELSE order0
      found == find_order(impl, order)
      popped == pop_free(st, found)
      block == popped.res
      st2 == [popped.st EXCEPT
                !.mem = Store64(Store8(Store32(@, block, BUDDY_MAGIC), block + 4, order),
                                block + 8, size)]
      committed == order_to_size(order)
  IN IF alloc = NULL \/ size = 0 THEN [st |-> st, res |-> NULL]
     ELSE IF impl_ptr = NULL THEN [st |-> st, res |-> NULL]
     ELSE IF order > impl.max_order
          THEN [st |-> [st EXCEPT !.stats = CountFailure(@)], res |-> NULL]
     ELSE IF found > impl.max_order
          THEN [st |-> [st EXCEPT !.stats = CountFailure(@)], res |-> NULL]
     ELSE [st |-> [st2 EXCEPT !.stats = CountAlloc(@, committed, size)],
           res |-> block + SIZEOF_buddy_block_header_t]

buddy_allocator_alloc(st, alloc, impl_ptr, size) ==
  LET impl == st.impl
      need == Add(size, SIZEOF_buddy_block_header_t)
      order0 == ceil_log2_size(need)
      order == IF order0 < impl.min_order THEN impl.min_order ELSE order0
      found == find_order(impl, order)
      popped == pop_free(st, found)
      block == popped.res
      st1 == split_block(popped.st, block, found, order)
      st2 == [st1 EXCEPT
                !.mem = Store64(Store8(Store32(@, block, BUDDY_MAGIC), block + 4, order),
                                block + 8, size)]
      committed == order_to_size(order)
  IN IF alloc = NULL \/ size = 0 THEN [st |-> st, res |-> NULL]
     ELSE IF impl_ptr = NULL THEN [st |-> st, res |-> NULL]
     ELSE IF order > impl.max_order
          THEN [st |-> [st EXCEPT !.stats = CountFailure(@)], res |-> NULL]
     ELSE IF found > impl.max_order
          THEN [st |-> [st EXCEPT !.stats = CountFailure(@)], res |-> NULL]
     ELSE [st |-> [st2 EXCEPT !.stats = CountAlloc(@, committed, size)],
           res |-> block + SIZEOF_buddy_block_header_t]

\* mutant: the buddy is always looked for above the block
xor_bit_add(offset, sz) == offset + sz

\* offset ^ sz for sz a power of two: the bit of weight sz is flipped
xor_bit(offset, sz) ==
  IF (offset \div sz) % 2 = 0 THEN offset + sz ELSE offset - sz

\* mutant: the merged block starts at the higher of the two buddies
RECURSIVE coalesce_keepsHigher(_, _, _)
coalesce_keepsHigher(st, b, order) ==
  IF order < st.impl.max_order
  THEN LET sz == order_to_size(order)
           base == st.impl.base
           buddy == base + xor_bit(b - base, sz)
           r == try_remove_buddy_from_list(st, order, buddy)
       IN IF r.res = NULL THEN [st |-> st, b |-> b, order |-> order]
          ELSE coalesce_keepsHigher(r.st, IF buddy < b THEN b ELSE buddy, order + 1)
  ELSE [st |-> st, b |-> b, order |-> order]

\* the coalescing loop of buddy_allocator_free: [st, b, order]
RECURSIVE coalesce(_, _, _)
\* mutant: the block is merged with its buddy once at most
coalesce_once(st, b, order) ==
  IF order < st.impl.max_order
  THEN LET sz == order_to_size(order)
           base == st.impl.base
           buddy == base + xor_bit(b - base, sz)
           r == try_remove_buddy_from_list(st, order, buddy)
       IN IF r.res = NULL THEN [st |-> st, b |-> b, order |-> order]
          ELSE [st |-> r.st, b |-> IF buddy < b THEN buddy ELSE b, order |-> order + 1]
  ELSE [st |-> st, b |-> b, order |-> order]

coalesce(st, b, order) ==
  IF order < st.impl.max_order
  THEN LET sz == order_to_size(order)
           base == st.impl.base
           buddy == base + xor_bit(b - base, sz)
           r == try_remove_buddy_from_list(st, order, buddy)
       IN IF r.res = NULL THEN [st |-> st, b |-> b, order |-> order]
          ELSE coalesce(r.st, IF buddy < b THEN buddy ELSE b, order + 1)
  ELSE [st |-> st, b |-> b, order |-> order]

\* mutant: the order read from the header is not checked against the orders of
\* the heap
buddy_allocator_free_noOrderCheck(st, alloc, impl_ptr, ptr) ==
  LET impl == st.impl
      hdr == ptr - SIZEOF_buddy_block_header_t
      order == Load8(st.mem, hdr + 4)
      committed == order_to_size(order)
      st1 == [st EXCEPT !.stats = CountFree(@, committed, Load64(st.mem, hdr + 8))]
      c == coalesce(st1, hdr, order)
  IN IF alloc = NULL \/ ptr = NULL THEN st
     ELSE IF impl_ptr = NULL THEN st
     ELSE IF Load32(st.mem, hdr) # BUDDY_MAGIC THEN st
     ELSE IF hdr < impl.base \/ hdr >= impl.base + impl.heap_size THEN st1
     ELSE push_free(c.st, c.order, c.b)

buddy_allocator_free(st, alloc, impl_ptr, ptr) ==
  LET impl == st.impl
      hdr == ptr - SIZEOF_buddy_block_header_t
      order == Load8(st.mem, hdr + 4)
      committed == order_to_size(order)
      st1 == [st EXCEPT !.stats = CountFree(@, committed, Load64(st.mem, hdr + 8))]
      c == coalesce(st1, hdr, order)
  IN IF alloc = NULL \/ ptr = NULL THEN st
     ELSE IF impl_ptr = NULL THEN st
     ELSE IF Load32(st.mem, hdr) # BUDDY_MAGIC THEN st
     ELSE IF order < impl.min_order \/ order > impl.max_order THEN st
     ELSE IF hdr < impl.base \/ hdr >= impl.base + impl.heap_size THEN st1
     ELSE push_free(c.st, c.order, c.b)

(***************************************************************************)
(* Segregated free-list allocator (src/segregated_freelist.c)              *)
(*                                                                         *)
(* st = [stats, impl, mem] as above, impl being the                        *)
(* segregated_freelist_allocator_t struct.  A free node is {next at +0,    *)
(* size at +8}; a block header is {committed_size at +0, requested_size at *)
(* +8, magic at +16}.                                                      *)
(***************************************************************************)
RECURSIVE size_class_from(_, _)
size_class_from(i, size) ==
  IF i >= NUM_SIZE_CLASSES THEN 0 - 1
  ELSE IF size <= SIZE_CLASSES[i] THEN i
  ELSE size_class_from(i + 1, size)

get_size_class(size) == size_class_from(0, size)

\* mutant: the total is not rounded up to ALIGN_SIZE
align_size_unrounded(size) == size

align_size(size) ==
  LET v == Add(size, ALIGN_SIZE - 1) IN v - (v % ALIGN_SIZE)

\* [ok, st, impl_ptr]
segregated_freelist_init(st, alloc, region, region_size) ==
  LET fail == [ok |-> FALSE, st |-> st, impl_ptr |-> NULL]
      impl_base == align_up(region, ALIGN_SIZE)
      impl_prefix == impl_base - region
      usable == region_size - impl_prefix
      heap_start == align_up(impl_base + SIZEOF_segregated_freelist_allocator_t, ALIGN_SIZE)
      heap_prefix == heap_start - impl_base
      heap_size == usable - heap_prefix
      impl0 == [kind |-> "segregated", heap |-> heap_start, heap_size |-> heap_size,
                free_lists |-> [i \in 0..(NUM_SIZE_CLASSES - 1) |-> NULL],
                large_blocks |-> heap_start]
  IN IF alloc = NULL \/ region = NULL
        \/ region_size < SIZEOF_segregated_freelist_allocator_t + SIZE_CLASSES[0] THEN fail
     ELSE IF impl_prefix >= region_size THEN fail
     ELSE IF usable < SIZEOF_segregated_freelist_allocator_t + SIZE_CLASSES[0] THEN fail
     ELSE IF heap_prefix >= usable THEN fail
     ELSE [ok |-> TRUE,
           st |-> [st EXCEPT !.impl = impl0,
                             !.mem = Store64(Store64(@, heap_start, NULL),
                                             heap_start + 8, heap_size),
                             !.stats.heap_size = heap_size],
           impl_ptr |-> impl_base]

\* mutant: a node of exactly the needed size is passed over
RECURSIVE first_fit_strict(_, _, _, _, _)
first_fit_strict(m, prev, curr, need, fuel) ==
  IF curr = NULL \/ fuel = 0 THEN <<prev, NULL>>
  ELSE IF Load64(m, curr + 8) > need THEN <<prev, curr>>
  ELSE first_fit_strict(m, curr, Load64(m, curr), need, fuel - 1)

\* the first-fit walk of the large-block list: <<prev, curr>>, prev = NULL
\* standing for the list head, curr = NULL when no node is large enough
RECURSIVE first_fit(_, _, _, _, _)
first_fit(m, prev, curr, need, fuel) ==
  IF curr = NULL \/ fuel = 0 THEN <<prev, NULL>>
  ELSE IF Load64(m, curr + 8) >= need THEN <<prev, curr>>
  ELSE first_fit(m, curr, Load64(m, curr), need, fuel - 1)

\* mutant: every remainder that is not empty is linked into the large list
cut_large_keepsSliver(st, need, block_size) ==
  LET f == first_fit(st.mem, NULL, st.impl.large_blocks, need,
                     st.impl.heap_size \div ALIGN_SIZE + 1)
      prev == f[1]
      curr == f[2]
      nxt == Load64(st.mem, curr)
      st1 == IF prev = NULL THEN [st EXCEPT !.impl.large_blocks = nxt]
             ELSE [st EXCEPT !.mem = Store64(@, prev, nxt)]
      remaining == Sub(Load64(st.mem, curr + 8), block_size)
      remainder == curr + block_size
      st2 == IF remaining > 0
             THEN [st1 EXCEPT !.mem = Store64(Store64(@, remainder + 8, remaining),
                                              remainder, st1.impl.large_blocks),
                              !.impl.large_blocks = remainder]
             ELSE st1
  IN IF curr = NULL THEN [st |-> st, res |-> NULL] ELSE [st |-> st2, res |-> curr]

\* detach the first large node of at least `need` bytes, cut `block_size` bytes
\* from its start and give the remainder back to the large list: [st, res]
\* mutant: the remainder of a cut is linked behind the head of the large list
cut_large_remainderSecond(st, need, block_size) ==
  LET f == first_fit(st.mem, NULL, st.impl.large_blocks, need,
                     st.impl.heap_size \div ALIGN_SIZE + 1)
      prev == f[1]
      curr == f[2]
      nxt == Load64(st.mem, curr)
      st1 == IF prev = NULL THEN [st EXCEPT !.impl.large_blocks = nxt]
             ELSE [st EXCEPT !.mem = Store64(@, prev, nxt)]
      remaining == Sub(Load64(st.mem, curr + 8), block_size)
      remainder == curr + block_size
      head == st1.impl.large_blocks
      st2 == IF remaining >= SIZE_CLASSES[0]
             THEN IF head = NULL
                  THEN [st1 EXCEPT !.mem = Store64(Store64(@, remainder + 8, remaining),
                                                   remainder, NULL),
                                   !.impl.large_blocks = remainder]
                  ELSE [st1 EXCEPT !.mem = Store64(Store64(Store64(@, remainder + 8, remaining),
                                                           remainder, Load64(st1.mem, head)),
                                                   head, remainder)]
             ELSE st1
  IN IF curr = NULL THEN [st |-> st, res |-> NULL] ELSE [st |-> st2, res |-> curr]

cut_large(st, need, block_size) ==
  LET f == first_fit(st.mem, NULL, st.impl.large_blocks, need,
                     st.impl.heap_size \div ALIGN_SIZE + 1)
      prev == f[1]
      curr == f[2]
      nxt == Load64(st.mem, curr)
      st1 == IF prev = NULL THEN [st EXCEPT !.impl.large_blocks = nxt]
             ELSE [st EXCEPT !.mem = Store64(@, prev, nxt)]
      remaining == Sub(Load64(st.mem, curr + 8), block_size)
      remainder == curr + block_size
      st2 == IF remaining >= SIZE_CLASSES[0]
             THEN [st1 EXCEPT !.mem = Store64(Store64(@, remainder + 8, remaining),
                                              remainder, st1.impl.large_blocks),
                              !.impl.large_blocks = remainder]
             ELSE st1
  IN IF curr = NULL THEN [st |-> st, res |-> NULL] ELSE [st |-> st2, res |-> curr]

\* the header write and the statistics update of a served block
sf_commit(st, block, total_size, size) ==
  [st EXCEPT !.mem = Store32(Store64(Store64(@, block, total_size), block + 8, size),
                             block + 16, BLOCK_MAGIC),
             !.stats = CountAlloc(@, total_size, size)]

\* [st, res]
\* mutant: a block cut for a size class takes the bytes of the smallest class
\* from the node
segregated_freelist_alloc_cutsSmallest(st, alloc, impl_ptr, size) ==
  LET impl == st.impl
      total_size == align_size(Add(size, HEADER_SIZE))
      class_idx == get_size_class(total_size)
      head == impl.free_lists[class_idx]
      fromList == [st |-> [st EXCEPT !.impl.free_lists[class_idx] = Load64(st.mem, head)],
                   res |-> head]
      got == IF class_idx >= 0
             THEN IF head # NULL THEN fromList
                  ELSE cut_large(st, SIZE_CLASSES[class_idx], SIZE_CLASSES[0])
             ELSE cut_large(st, total_size, total_size)
  IN IF alloc = NULL \/ size = 0 THEN [st |-> st, res |-> NULL]
     ELSE IF impl_ptr = NULL THEN [st |-> st, res |-> NULL]
     ELSE IF got.res # NULL
          THEN [st |-> sf_commit(got.st, got.res, total_size, size),
                res |-> got.res + HEADER_SIZE]
     ELSE [st |-> [st EXCEPT !.stats = CountFailure(@)], res |-> NULL]

segregated_freelist_alloc(st, alloc, impl_ptr, size) ==
  LET impl == st.impl
      total_size == align_size(Add(size, HEADER_SIZE))
      class_idx == get_size_class(total_size)
      head == impl.free_lists[class_idx]
      fromList == [st |-> [st EXCEPT !.impl.free_lists[class_idx] = Load64(st.mem, head)],
                   res |-> head]
      got == IF class_idx >= 0
             THEN IF head # NULL THEN fromList
                  ELSE cut_large(st, SIZE_CLASSES[class_idx], SIZE_CLASSES[class_idx])
             ELSE cut_large(st, total_size, total_size)
  IN IF alloc = NULL \/ size = 0 THEN [st |-> st, res |-> NULL]
     ELSE IF impl_ptr = NULL THEN [st |-> st, res |-> NULL]
     ELSE IF got.res # NULL
          THEN [st |-> sf_commit(got.st, got.res, total_size, size),
                res |-> got.res + HEADER_SIZE]
     ELSE [st |-> [st EXCEPT !.stats = CountFailure(@)], res |-> NULL]

\* mutant: every freed block goes to the large list
segregated_freelist_free_alwaysLarge(st, alloc, impl_ptr, ptr) ==
  LET impl == st.impl
      header == ptr - HEADER_SIZE
      total_size == Load64(st.mem, header)
      requested == Load64(st.mem, header + 8)
      st1 == [st EXCEPT !.stats = CountFree(@, total_size, requested),
                        !.mem = Store64(@, header + 8, total_size)]
  IN IF alloc = NULL \/ ptr = NULL THEN st
     ELSE IF impl_ptr = NULL THEN st
     ELSE IF Load32(st.mem, header + 16) # BLOCK_MAGIC THEN st
     ELSE [st1 EXCEPT !.mem = Store64(@, header, impl.large_blocks),
                      !.impl.large_blocks = header]

\* mutant: a freed block goes to the list of the smallest class that holds it,
\* whether or not its size is that class's size
segregated_freelist_free_byClass(st, alloc, impl_ptr, ptr) ==
  LET impl == st.impl
      header == ptr - HEADER_SIZE
      total_size == Load64(st.mem, header)
      requested == Load64(st.mem, header + 8)
      class_idx == get_size_class(total_size)
      st1 == [st EXCEPT !.stats = CountFree(@, total_size, requested),
                        !.mem = Store64(@, header + 8, total_size)]
  IN IF alloc = NULL \/ ptr = NULL THEN st
     ELSE IF impl_ptr = NULL THEN st
     ELSE IF Load32(st.mem, header + 16) # BLOCK_MAGIC THEN st
     ELSE IF class_idx >= 0
          THEN [st1 EXCEPT !.mem = Store64(@, header, impl.free_lists[class_idx]),
                           !.impl.free_lists[class_idx] = header]
     ELSE [st1 EXCEPT !.mem = Store64(@, header, impl.large_blocks),
                      !.impl.large_blocks = header]

\* mutant: a free clears the magic of the block it gives back
segregated_freelist_free_clearsMagic(st, alloc, impl_ptr, ptr) ==
  LET impl == st.impl
      header == ptr - HEADER_SIZE
      total_size == Load64(st.mem, header)
      requested == Load64(st.mem, header + 8)
      class_idx == get_size_class(total_size)
      st1 == [st EXCEPT !.stats = CountFree(@, total_size, requested),
                        !.mem = Store32(Store64(@, header + 8, total_size), header + 16, 0)]
  IN IF alloc = NULL \/ ptr = NULL THEN st
     ELSE IF impl_ptr = NULL THEN st
     ELSE IF Load32(st.mem, header + 16) # BLOCK_MAGIC THEN st
     ELSE IF class_idx >= 0 /\ total_size = SIZE_CLASSES[class_idx]
          THEN [st1 EXCEPT !.mem = Store64(@, header, impl.free_lists[class_idx]),
                           !.impl.free_lists[class_idx] = header]
     ELSE [st1 EXCEPT !.mem = Store64(@, header, impl.large_blocks),
                      !.impl.large_blocks = header]

segregated_freelist_free(st, alloc, impl_ptr, ptr) ==
  LET impl == st.impl
      header == ptr - HEADER_SIZE
      total_size == Load64(st.mem, header)
      requested == Load64(st.mem, header + 8)
      class_idx == get_size_class(total_size)
      st1 == [st EXCEPT !.stats = CountFree(@, total_size, requested),
                        !.mem = Store64(@, header + 8, total_size)]
  IN IF alloc = NULL \/ ptr = NULL THEN st
     ELSE IF impl_ptr = NULL THEN st
     ELSE IF Load32(st.mem, header + 16) # BLOCK_MAGIC THEN st
     ELSE IF class_idx >= 0 /\ total_size = SIZE_CLASSES[class_idx]
          THEN [st1 EXCEPT !.mem = Store64(@, header, impl.free_lists[class_idx]),
                           !.impl.free_lists[class_idx] = header]
     ELSE [st1 EXCEPT !.mem = Store64(@, header, impl.large_blocks),
                      !.impl.large_blocks = header]

(***************************************************************************)
(* Facade (src/allocator.c)                                                *)
(*                                                                         *)
(* F = [hdr, stats, impl, mem, host]: the allocator_t header fields, its   *)
(* stats member, the algorithm state, the heap memory, and the host heap   *)
(* (the backing region of allocator_create_with_malloc).  `alloc` is the   *)
(* handle the caller passes: NULL, or the address create returned.         *)
(***************************************************************************)
ZeroHdr ==
  [type |-> 0, real_memory |-> NULL, real_memory_size |-> 0, impl_region |-> NULL,
   impl_region_size |-> 0, impl |-> NULL, owns_real_memory |-> FALSE,
   destroy_impl |-> "NULL", alloc_impl |-> "NULL", free_impl |-> "NULL"]

NoImpl == [kind |-> "none"]

EmptyMem == [a \in {} |-> 0]

NoHost == [backing |-> NULL, released |-> 0]

Blank == [hdr |-> ZeroHdr, stats |-> ZeroStats, impl |-> NoImpl, mem |-> EmptyMem,
          host |-> NoHost]

\* mutant: the initializer's verdict is not looked at
allocator_create_ignoresOk(type, realMemory, memory_size) ==
  LET base == align_up(realMemory, ALLOCATOR_ALIGN)
      prefix == base - realMemory
      usable == memory_size - prefix
      after_hdr == align_up(base + SIZEOF_allocator_t, ALLOCATOR_ALIGN)
      after_hdr_prefix == after_hdr - base
      impl_region_size == usable - after_hdr_prefix
      hdr0 == [ZeroHdr EXCEPT !.type = type, !.real_memory = realMemory,
                              !.real_memory_size = memory_size]
      hdr1 == [hdr0 EXCEPT !.impl_region = after_hdr,
                           !.impl_region_size = impl_region_size]
      st0 == [stats |-> [ZeroStats EXCEPT !.heap_size = impl_region_size],
              impl |-> NoImpl, mem |-> EmptyMem]
      r == CASE type = ALLOCATOR_SEGREGATED_FREELIST ->
                  segregated_freelist_init(st0, base, after_hdr, impl_region_size)
             [] type = ALLOCATOR_BUDDY ->
                  buddy_allocator_init(st0, base, after_hdr, impl_region_size)
             [] OTHER -> [ok |-> FALSE, st |-> st0, impl_ptr |-> NULL]
      hdr2 == CASE type = ALLOCATOR_SEGREGATED_FREELIST ->
                     [hdr1 EXCEPT !.impl = r.impl_ptr,
                                  !.destroy_impl = "segregated_freelist_deinit",
                                  !.alloc_impl = "segregated_freelist_alloc",
                                  !.free_impl = "segregated_freelist_free"]
                [] type = ALLOCATOR_BUDDY ->
                     [hdr1 EXCEPT !.impl = r.impl_ptr,
                                  !.destroy_impl = "buddy_allocator_deinit",
                                  !.alloc_impl = "buddy_allocator_alloc",
                                  !.free_impl = "buddy_allocator_free"]
                [] OTHER -> hdr1
      built == [hdr |-> hdr2, stats |-> r.st.stats, impl |-> r.st.impl,
                mem |-> r.st.mem, host |-> NoHost]
  IN IF realMemory = NULL \/ memory_size < SIZEOF_allocator_t
     THEN [F |-> Blank, res |-> NULL]
     ELSE IF prefix >= memory_size THEN [F |-> Blank, res |-> NULL]
     ELSE IF usable < SIZEOF_allocator_t THEN [F |-> Blank, res |-> NULL]
     ELSE IF after_hdr_prefix > usable
          THEN [F |-> [Blank EXCEPT !.hdr = hdr0], res |-> NULL]
     ELSE [F |-> built, res |-> base]

\* [F, res]: res is the handle, NULL on failure
allocator_create(type, realMemory, memory_size) ==
  LET base == align_up(realMemory, ALLOCATOR_ALIGN)
      prefix == base - realMemory
      usable == memory_size - prefix
      after_hdr == align_up(base + SIZEOF_allocator_t, ALLOCATOR_ALIGN)
      after_hdr_prefix == after_hdr - base
      impl_region_size == usable - after_hdr_prefix
      hdr0 == [ZeroHdr EXCEPT !.type = type, !.real_memory = realMemory,
                              !.real_memory_size = memory_size]
      hdr1 == [hdr0 EXCEPT !.impl_region = after_hdr,
                           !.impl_region_size = impl_region_size]
      st0 == [stats |-> [ZeroStats EXCEPT !.heap_size = impl_region_size],
              impl |-> NoImpl, mem |-> EmptyMem]
      r == CASE type = ALLOCATOR_SEGREGATED_FREELIST ->
                  segregated_freelist_init(st0, base, after_hdr, impl_region_size)
             [] type = ALLOCATOR_BUDDY ->
                  buddy_allocator_init(st0, base, after_hdr, impl_region_size)
             [] OTHER -> [ok |-> FALSE, st |-> st0, impl_ptr |-> NULL]
      hdr2 == CASE type = ALLOCATOR_SEGREGATED_FREELIST ->
                     [hdr1 EXCEPT !.impl = r.impl_ptr,
                                  !.destroy_impl = "segregated_freelist_deinit",
                                  !.alloc_impl = "segregated_freelist_alloc",
                                  !.free_impl = "segregated_freelist_free"]
                [] type = ALLOCATOR_BUDDY ->
                     [hdr1 EXCEPT !.impl = r.impl_ptr,
                                  !.destroy_impl = "buddy_allocator_deinit",
                                  !.alloc_impl = "buddy_allocator_alloc",
                                  !.free_impl = "buddy_allocator_free"]
                [] OTHER -> hdr1
      built == [hdr |-> hdr2, stats |-> r.st.stats, impl |-> r.st.impl,
                mem |-> r.st.mem, host |-> NoHost]
  IN IF realMemory = NULL \/ memory_size < SIZEOF_allocator_t
     THEN [F |-> Blank, res |-> NULL]
     ELSE IF prefix >= memory_size THEN [F |-> Blank, res |-> NULL]
     ELSE IF usable < SIZEOF_allocator_t THEN [F |-> Blank, res |-> NULL]
     ELSE IF after_hdr_prefix > usable
          THEN [F |-> [Blank EXCEPT !.hdr = hdr0], res |-> NULL]
     ELSE IF ~r.ok THEN [F |-> built, res |-> NULL]
     ELSE [F |-> built, res |-> base]

\* [F, res]; `backing` is what malloc(memory_size + ALLOCATOR_ALIGN) returned,
\* NULL when the host heap is exhausted; host.released counts the calls of
\* free(backing)
allocator_create_with_malloc(type, memory_size, backing) ==
  IF backing = NULL THEN [F |-> Blank, res |-> NULL]
  ELSE LET c == allocator_create(type, backing, memory_size)
       IN IF c.res = NULL
          THEN [F |-> [c.F EXCEPT !.host = [backing |-> backing, released |-> 1]],
                res |-> NULL]
          ELSE [F |-> [c.F EXCEPT !.hdr.owns_real_memory = TRUE,
                                  !.host = [backing |-> backing, released |-> 0]],
                res |-> c.res]

\* the part of F the algorithms work on
StOf(F) == [stats |-> F.stats, impl |-> F.impl, mem |-> F.mem]

WithSt(F, st) == [F EXCEPT !.stats = st.stats, !.impl = st.impl, !.mem = st.mem]

\* mutant: the facade counts a failure whenever the implementation returns null
allocator_alloc_countsNull(F, alloc, size) ==
  IF alloc = NULL THEN [F |-> F, res |-> NULL]
  ELSE IF F.hdr.alloc_impl = "NULL" THEN [F |-> F, res |-> NULL]
  ELSE LET r == IF F.hdr.alloc_impl = "buddy_allocator_alloc"
                THEN buddy_allocator_alloc(StOf(F), alloc, F.hdr.impl, size)
                ELSE segregated_freelist_alloc(StOf(F), alloc, F.hdr.impl, size)
       IN IF r.res = NULL
          THEN [F |-> [F EXCEPT !.stats = CountFailure(@)], res |-> NULL]
          ELSE [F |-> WithSt(F, r.st), res |-> r.res]

\* [F, res]
allocator_alloc(F, alloc, size) ==
  IF alloc = NULL THEN [F |-> F, res |-> NULL]
  ELSE IF F.hdr.alloc_impl = "NULL" THEN [F |-> F, res |-> NULL]
  ELSE LET r == IF F.hdr.alloc_impl = "buddy_allocator_alloc"
                THEN buddy_allocator_alloc(StOf(F), alloc, F.hdr.impl, size)
                ELSE segregated_freelist_alloc(StOf(F), alloc, F.hdr.impl, size)
       IN [F |-> WithSt(F, r.st), res |-> r.res]

\* mutant: the call is counted as a free before its arguments are checked
allocator_free_countsFirst(F, alloc, ptr) ==
  IF alloc = NULL \/ ptr = NULL THEN [F EXCEPT !.stats.total_frees = Add(@, 1)]
  ELSE IF F.hdr.free_impl = "NULL" THEN F
  ELSE IF F.hdr.free_impl = "buddy_allocator_free"
       THEN WithSt(F, buddy_allocator_free(StOf(F), alloc, F.hdr.impl, ptr))
       ELSE WithSt(F, segregated_freelist_free(StOf(F), alloc, F.hdr.impl, ptr))

allocator_free(F, alloc, ptr) ==
  IF alloc = NULL \/ ptr = NULL THEN F
  ELSE IF F.hdr.free_impl = "NULL" THEN F
  ELSE IF F.hdr.free_impl = "buddy_allocator_free"
       THEN WithSt(F, buddy_allocator_free(StOf(F), alloc, F.hdr.impl, ptr))
       ELSE WithSt(F, segregated_freelist_free(StOf(F), alloc, F.hdr.impl, ptr))

\* mutant: the old block is freed before the new one is allocated
allocator_realloc_freesFirst(F, alloc, ptr, new_size) ==
  IF alloc = NULL THEN [F |-> F, res |-> NULL]
  ELSE IF ptr = NULL THEN allocator_alloc(F, alloc, new_size)
  ELSE IF new_size = 0 THEN [F |-> allocator_free(F, alloc, ptr), res |-> NULL]
  ELSE allocator_alloc(allocator_free(F, alloc, ptr), alloc, new_size)

\* [F, res]
\* mutant: the old block is freed whether or not the new one was allocated
allocator_realloc_freesOnFailure(F, alloc, ptr, new_size) ==
  IF alloc = NULL THEN [F |-> F, res |-> NULL]
  ELSE IF ptr = NULL THEN allocator_alloc(F, alloc, new_size)
  ELSE IF new_size = 0 THEN [F |-> allocator_free(F, alloc, ptr), res |-> NULL]
  ELSE LET r == allocator_alloc(F, alloc, new_size)
       IN [F |-> allocator_free(r.F, alloc, ptr), res |-> r.res]

allocator_realloc(F, alloc, ptr, new_size) ==
  IF alloc = NULL THEN [F |-> F, res |-> NULL]
  ELSE IF ptr = NULL THEN allocator_alloc(F, alloc, new_size)
  ELSE IF new_size = 0 THEN [F |-> allocator_free(F, alloc, ptr), res |-> NULL]
  ELSE LET r == allocator_alloc(F, alloc, new_size)
       IN IF r.res # NULL
          THEN [F |-> allocator_free(r.F, alloc, ptr), res |-> r.res]
          ELSE r

\* the caller's struct after the call; `stats` is the pointer to it, `out` its content
allocator_get_stats(F, alloc, stats, out) ==
  IF alloc = NULL \/ stats = NULL THEN out ELSE F.stats

\* mutant: heap_size is not put back after the counters are cleared
allocator_reset_stats_clearsHeapSize(F, alloc) ==
  IF alloc = NULL THEN F ELSE [F EXCEPT !.stats = ZeroStats]

allocator_reset_stats(F, alloc) ==
  IF alloc = NULL THEN F
  ELSE [F EXCEPT !.stats = [ZeroStats EXCEPT !.heap_size = F.stats.heap_size],
                 !.hdr.type = F.hdr.type]

\* mutant: the region is released whoever owns it
allocator_destroy_alwaysReleases(F, alloc) ==
  IF alloc = NULL THEN F ELSE [F EXCEPT !.host.released = @ + 1]

allocator_destroy(F, alloc) ==
  IF alloc = NULL THEN F
  ELSE IF F.hdr.owns_real_memory /\ F.hdr.real_memory # NULL
       THEN [F EXCEPT !.host.released = @ + 1]
       ELSE F

(***************************************************************************)
(* State                                                                   *)
(***************************************************************************)
VARIABLES
  hdr,        \* the allocator_t header (all fields but stats)
  stats,      \* allocator_t.stats
  impl,       \* the algorithm's state struct inside the implementation region
  mem,        \* the heap memory
  host,       \* the host heap: the backing region of create_with_malloc
  handle,     \* what create returned to the caller (NULL when it failed)
  destroyed,  \* allocator_destroy(handle) has been called
  live,       \* the payload pointers the caller holds and has not freed
  ret,        \* the last call: its name, arguments and result
  steps,      \* number of state-changing calls made so far
  pattern,    \* the request size of the caller's alloc/free loop (0: no loop);
              \* in the reuse rounds, the size whose block the last free returned
  resetLive   \* reset_stats has been called while blocks were outstanding

vars == <<hdr, stats, impl, mem, host, handle, destroyed, live, ret, steps,
          pattern, resetLive>>

Cur == [hdr |-> hdr, stats |-> stats, impl |-> impl, mem |-> mem, host |-> host]

SetF(G) ==
  /\ hdr' = G.hdr
  /\ stats' = G.stats
  /\ impl' = G.impl
  /\ mem' = G.mem
  /\ host' = G.host

Call(op, alloc, ptr, size, res) ==
  [op |-> op, alloc |-> alloc, ptr |-> ptr, size |-> size, res |-> res,
   out |-> ZeroStats]

(***************************************************************************)
(* Inputs                                                                  *)
(***************************************************************************)
Types == {ALLOCATOR_SEGREGATED_FREELIST, ALLOCATOR_BUDDY}

\* <<type, realMemory, memory_size>> of the regions the calls below work on: for
\* each algorithm a small heap and one above the largest size class, at a
\* 16-byte-aligned address and at one that is not
Configs ==
  {<<ALLOCATOR_SEGREGATED_FREELIST, 1032, 496>>,
   <<ALLOCATOR_SEGREGATED_FREELIST, 1024, 2400>>,
   <<ALLOCATOR_BUDDY, 1024, 700>>,
   <<ALLOCATOR_BUDDY, 1032, 2400>>}

\* request sizes: zero, exact and inexact size classes, and one beyond every class
ReqSizes == {0, 1, 17, 100, 2030}

ReallocSizes == {0, 17}

(***************************************************************************)
(* Initial states: the state after allocator_create                        *)
(***************************************************************************)
Created(type, realMemory, memory_size, p) ==
  \E c \in {allocator_create(type, realMemory, memory_size)} :
     /\ hdr = c.F.hdr
     /\ stats = c.F.stats
     /\ impl = c.F.impl
     /\ mem = c.F.mem
     /\ host = c.F.host
     /\ handle = c.res
     /\ destroyed = FALSE
     /\ live = {}
     /\ ret = Call("create", c.res, realMemory, memory_size, c.res)
     /\ steps = 0
     /\ pattern = p
     /\ resetLive = FALSE

Init == \E c \in Configs : Created(c[1], c[2], c[3], 0)

(***************************************************************************)
(* Actions: one per facade call                                            *)
(***************************************************************************)
Usable == handle # NULL /\ ~destroyed

Alloc(size) ==
  /\ Usable
  /\ steps < MaxSteps
  /\ \E r \in {allocator_alloc(Cur, handle, size)} :
        /\ SetF(r.F)
        /\ live' = IF r.res # NULL THEN live \cup {r.res} ELSE live
        /\ ret' = Call("alloc", handle, NULL, size, r.res)
  /\ steps' = steps + 1
  /\ UNCHANGED <<handle, destroyed, pattern, resetLive>>

Free(ptr) ==
  /\ Usable
  /\ steps < MaxSteps
  /\ ptr \in live
  /\ SetF(allocator_free(Cur, handle, ptr))
  /\ live' = live \ {ptr}
  /\ ret' = Call("free", handle, ptr, 0, NULL)
  /\ steps' = steps + 1
  /\ UNCHANGED <<handle, destroyed, pattern, resetLive>>

Realloc(ptr, new_size) ==
  /\ Usable
  /\ steps < MaxSteps
  /\ ptr \in live \cup {NULL}
  /\ \E r \in {allocator_realloc(Cur, handle, ptr, new_size)} :
        /\ SetF(r.F)
        /\ live' = (IF ptr # NULL /\ (new_size = 0 \/ r.res # NULL)
                    THEN live \ {ptr} ELSE live)
                     \cup (IF r.res # NULL THEN {r.res} ELSE {})
        /\ ret' = Call("realloc", handle, ptr, new_size, r.res)
  /\ steps' = steps + 1
  /\ UNCHANGED <<handle, destroyed, pattern, resetLive>>

GetStats ==
  /\ Usable
  /\ ret' = [Call("get_stats", handle, NULL, 0, NULL) EXCEPT
               !.out = allocator_get_stats(Cur, handle, 1, ZeroStats)]
  /\ UNCHANGED <<hdr, stats, impl, mem, host, handle, destroyed, live, steps,
                 pattern, resetLive>>

ResetStats ==
  /\ Usable
  /\ steps < MaxSteps
  /\ SetF(allocator_reset_stats(Cur, handle))
  /\ resetLive' = (resetLive \/ live # {})
  /\ ret' = Call("reset_stats", handle, NULL, 0, NULL)
  /\ steps' = steps + 1
  /\ UNCHANGED <<handle, destroyed, live, pattern>>

Destroy ==
  /\ Usable
  /\ SetF(allocator_destroy(Cur, handle))
  /\ destroyed' = TRUE
  /\ ret' = Call("destroy", handle, NULL, 0, NULL)
  /\ UNCHANGED <<handle, live, steps, pattern, resetLive>>

\* calls with a null handle or a null pointer
AllocNull(size) ==
  /\ \E r \in {allocator_alloc(Cur, NULL, size)} :
        /\ SetF(r.F)
        /\ ret' = Call("alloc", NULL, NULL, size, r.res)
  /\ UNCHANGED <<handle, destroyed, live, steps, pattern, resetLive>>

FreeNullHandle(ptr) ==
  /\ ptr \in live
  /\ SetF(allocator_free(Cur, NULL, ptr))
  /\ ret' = Call("free", NULL, ptr, 0, NULL)
  /\ UNCHANGED <<handle, destroyed, live, steps, pattern, resetLive>>

FreeNullPtr ==
  /\ Usable
  /\ SetF(allocator_free(Cur, handle, NULL))
  /\ ret' = Call("free", handle, NULL, 0, NULL)
  /\ UNCHANGED <<handle, destroyed, live, steps, pattern, resetLive>>

DestroyNull ==
  /\ SetF(allocator_destroy(Cur, NULL))
  /\ ret' = Call("destroy", NULL, NULL, 0, NULL)
  /\ UNCHANGED <<handle, destroyed, live, steps, pattern, resetLive>>

Next ==
  \/ \E size \in ReqSizes : Alloc(size)
  \/ \E ptr \in live : Free(ptr)
  \/ \E ptr \in live \cup {NULL}, new_size \in ReallocSizes : Realloc(ptr, new_size)
  \/ GetStats
  \/ ResetStats
  \/ Destroy

Spec == Init /\ [][Next]_vars

\* alloc and free calls only
NextAllocFree ==
  \/ \E size \in ReqSizes : Alloc(size)
  \/ \E ptr \in live : Free(ptr)

SpecAllocFree == Init /\ [][NextAllocFree]_vars

\* alloc and free calls, and calls with a null handle or a null pointer
NextNull ==
  \/ \E size \in ReqSizes : Alloc(size)
  \/ \E ptr \in live : Free(ptr)
  \/ \E size \in ReqSizes : AllocNull(size)
  \/ \E ptr \in live : FreeNullHandle(ptr)
  \/ FreeNullPtr
  \/ DestroyNull

SpecNull == Init /\ [][NextNull]_vars

(***************************************************************************)
(* The caller's loop of test_alloc_pattern: alloc(size), free, again, on a *)
(* fresh facade, for one request size of at most half the heap             *)
(***************************************************************************)
HalfHeap(c) == allocator_create(c[1], c[2], c[3]).F.stats.heap_size \div 2

InitPattern ==
  \E c \in Configs : \E size \in 1..HalfHeap(c) : Created(c[1], c[2], c[3], size)

PatternAlloc ==
  /\ Usable
  /\ steps < MaxPatternSteps
  /\ live = {}
  /\ \E r \in {allocator_alloc(Cur, handle, pattern)} :
        /\ SetF(r.F)
        /\ live' = IF r.res # NULL THEN {r.res} ELSE {}
        /\ ret' = Call("alloc", handle, NULL, pattern, r.res)
  /\ steps' = steps + 1
  /\ UNCHANGED <<handle, destroyed, pattern, resetLive>>

PatternFree ==
  /\ Usable
  /\ steps < MaxPatternSteps
  /\ \E ptr \in live :
       /\ SetF(allocator_free(Cur, handle, ptr))
       /\ ret' = Call("free", handle, ptr, 0, NULL)
  /\ live' = {}
  /\ steps' = steps + 1
  /\ UNCHANGED <<handle, destroyed, pattern, resetLive>>

NextPattern == PatternAlloc \/ PatternFree

SpecPattern == InitPattern /\ [][NextPattern]_vars

(***************************************************************************)
(* One allocation on a fresh facade, over every region the constructor is  *)
(* offered                                                                 *)
(***************************************************************************)
\* the least memory_size the checks of create and of the initializer let through
\* (at a 16-byte-aligned address)
Footprint(type) ==
  SIZEOF_allocator_t
    + (IF type = ALLOCATOR_BUDDY THEN SIZEOF_buddy_impl_t + 256
       ELSE SIZEOF_segregated_freelist_allocator_t + SIZE_CLASSES[0])

\* the sizes around the smallest accepted region, and two regions whose heap
\* is larger than the largest size class
RegionSizes(type) ==
  ((Footprint(type) - 24)..(Footprint(type) + MaxExtra)) \cup {2396, 2400}

InitAnyRegion ==
  \E type \in Types, realMemory \in {1024, 1032} :
    \E memory_size \in RegionSizes(type) : Created(type, realMemory, memory_size, 0)

FirstAlloc(size) ==
  /\ Usable
  /\ steps = 0
  /\ \E r \in {allocator_alloc(Cur, handle, size)} :
        /\ SetF(r.F)
        /\ live' = IF r.res # NULL THEN {r.res} ELSE {}
        /\ ret' = Call("alloc", handle, NULL, size, r.res)
  /\ steps' = 1
  /\ UNCHANGED <<handle, destroyed, pattern, resetLive>>

NextFirst == \E size \in 1..stats.heap_size : FirstAlloc(size)

SpecFirst == InitAnyRegion /\ [][NextFirst]_vars

(***************************************************************************)
(* The buddy allocator alone: alloc and free calls with request sizes at   *)
(* and next to the powers of two                                           *)
(***************************************************************************)
InitBuddy ==
  \E c \in {d \in Configs : d[1] = ALLOCATOR_BUDDY} : Created(c[1], c[2], c[3], 0)

\* with the 16-byte header: 17, 32, 33, 64, 65, 128, 129 and 256 bytes
BuddySizes == {1, 16, 17, 48, 49, 112, 113, 240}

NextBuddy ==
  \/ \E size \in BuddySizes : Alloc(size)
  \/ \E ptr \in live : Free(ptr)

SpecBuddy == InitBuddy /\ [][NextBuddy]_vars

(***************************************************************************)
(* The segregated allocator alone: longer runs of alloc and free calls on  *)
(* small heaps, with requests that fill a size class exactly and one that  *)
(* does not                                                                *)
(***************************************************************************)
\* heaps of 104 and of 256 bytes
SegConfigs ==
  {<<ALLOCATOR_SEGREGATED_FREELIST, 1024, 336>>,
   <<ALLOCATOR_SEGREGATED_FREELIST, 1032, 496>>}

InitSeg == \E c \in SegConfigs : Created(c[1], c[2], c[3], 0)

\* with the 24-byte header: 32 bytes (a class), 48 (no class) and 64 (a class)
SegSizes == {8, 17, 40}

SegAlloc(size) ==
  /\ Usable
  /\ steps < MaxSegSteps
  /\ \E r \in {allocator_alloc(Cur, handle, size)} :
        /\ SetF(r.F)
        /\ live' = IF r.res # NULL THEN live \cup {r.res} ELSE live
        /\ ret' = Call("alloc", handle, NULL, size, r.res)
  /\ steps' = steps + 1
  /\ UNCHANGED <<handle, destroyed, pattern, resetLive>>

SegFree(ptr) ==
  /\ Usable
  /\ steps < MaxSegSteps
  /\ ptr \in live
  /\ SetF(allocator_free(Cur, handle, ptr))
  /\ live' = live \ {ptr}
  /\ ret' = Call("free", handle, ptr, 0, NULL)
  /\ steps' = steps + 1
  /\ UNCHANGED <<handle, destroyed, pattern, resetLive>>

NextSeg ==
  \/ \E size \in SegSizes : SegAlloc(size)
  \/ \E ptr \in live : SegFree(ptr)

SpecSeg == InitSeg /\ [][NextSeg]_vars

(***************************************************************************)
(* Frees of pointers the allocator did not return: a pointer into the      *)
(* payload of an outstanding block, and a pointer into a buffer of the     *)
(* caller, outside the region, in which the caller has laid out the bytes  *)
(* of a block header                                                       *)
(***************************************************************************)
\* addresses of the caller's buffers (the regions of Configs start at 1024)
CallerBuffers == {512}

\* the magic value of each allocator: the right one for one, a wrong one for
\* the other
ForgedMagics == {BUDDY_MAGIC, BLOCK_MAGIC}

\* the order of a buddy header (below min_order, inside the orders of both
\* heaps, above max_order), the committed size of a segregated header
ForgedWords == {3, 6, 12}

\* the caller writes the fields of a header of the allocator's kind into its
\* own buffer. A header carrying BLOCK_MAGIC is accepted by
\* segregated_freelist_free, which links the caller's buffer into the lists (a
\* second free of it closes the list into a cycle that alloc walks for ever):
\* the runs explored here forge only headers that one of the checks of free
\* rejects, or, for buddy, that reach its range check.
ForgeHeader(a, magic, word, requested) ==
  /\ Usable
  /\ hdr.type = ALLOCATOR_SEGREGATED_FREELIST => magic # BLOCK_MAGIC
  /\ mem' = IF hdr.type = ALLOCATOR_BUDDY
            THEN Store64(Store8(Store32(mem, a, magic), a + 4, word), a + 8, requested)
            ELSE Store32(Store64(Store64(mem, a, word), a + 8, requested), a + 16, magic)
  /\ ret' = Call("write", handle, a, 0, NULL)
  /\ UNCHANGED <<hdr, stats, impl, host, handle, destroyed, live, steps, pattern,
                 resetLive>>

\* the payload pointer that goes with a header at address a
PayloadOf(a) ==
  a + (IF hdr.type = ALLOCATOR_BUDDY THEN SIZEOF_buddy_block_header_t ELSE HEADER_SIZE)

UnownedPointers ==
  {PayloadOf(a) : a \in CallerBuffers} \cup {p + 8 : p \in live}

FreeUnowned(ptr) ==
  /\ Usable
  /\ steps < MaxSteps
  /\ ptr \notin live
  /\ SetF(allocator_free(Cur, handle, ptr))
  /\ ret' = Call("free", handle, ptr, 0, NULL)
  /\ steps' = steps + 1
  /\ UNCHANGED <<handle, destroyed, live, pattern, resetLive>>

NextInvalid ==
  \/ \E size \in {17, 100} : Alloc(size)
  \/ \E ptr \in live : Free(ptr)
  \/ \E a \in CallerBuffers, magic \in ForgedMagics, word \in ForgedWords :
       ForgeHeader(a, magic, word, 8)
  \/ \E ptr \in UnownedPointers : FreeUnowned(ptr)

SpecInvalid == Init /\ [][NextInvalid]_vars

(***************************************************************************)
(* Construction: from the caller's state before any facade exists, one     *)
(* call of allocator_create or of allocator_create_with_malloc over every  *)
(* tag, region and size, then allocator_destroy                            *)
(***************************************************************************)
InitBlank ==
  /\ hdr = Blank.hdr
  /\ stats = Blank.stats
  /\ impl = Blank.impl
  /\ mem = Blank.mem
  /\ host = Blank.host
  /\ handle = NULL
  /\ destroyed = FALSE
  /\ live = {}
  /\ ret = Call("none", NULL, NULL, 0, NULL)
  /\ steps = 0
  /\ pattern = 0
  /\ resetLive = FALSE

\* the two tags and a value that is neither
CreateTypes == Types \cup {2}

CreateRegions == {NULL, 1024, 1032}

CreateSizes == 0..(Footprint(ALLOCATOR_BUDDY) + MaxExtra)

\* the call and its arguments, as the later properties read them
CreateCall(op, type, realMemory, memory_size, res) ==
  [op |-> op, type |-> type, alloc |-> NULL, ptr |-> realMemory, size |-> memory_size,
   res |-> res, out |-> ZeroStats]

Create(type, realMemory, memory_size) ==
  /\ ret.op = "none"
  /\ \E c \in {allocator_create(type, realMemory, memory_size)} :
       /\ SetF(c.F)
       /\ handle' = c.res
       /\ ret' = CreateCall("create", type, realMemory, memory_size, c.res)
  /\ UNCHANGED <<destroyed, live, steps, pattern, resetLive>>

CreateWithMalloc(type, memory_size, backing) ==
  /\ ret.op = "none"
  /\ \E c \in {allocator_create_with_malloc(type, memory_size, backing)} :
       /\ SetF(c.F)
       /\ handle' = c.res
       /\ ret' = CreateCall("create_with_malloc", type, backing, memory_size, c.res)
  /\ UNCHANGED <<destroyed, live, steps, pattern, resetLive>>

NextCreate ==
  \/ \E type \in CreateTypes, realMemory \in CreateRegions, memory_size \in CreateSizes :
       Create(type, realMemory, memory_size)
  \/ \E type \in CreateTypes, memory_size \in CreateSizes, backing \in {NULL, 1024} :
       CreateWithMalloc(type, memory_size, backing)
  \/ Destroy

SpecCreate == InitBlank /\ [][NextCreate]_vars

(***************************************************************************)
(* Reuse rounds (test_memory_reuse): alloc(s), free of the block just      *)
(* allocated, alloc again, in states reached by earlier alloc and free     *)
(* calls                                                                   *)
(***************************************************************************)
ReuseConfigs ==
  {<<ALLOCATOR_SEGREGATED_FREELIST, 1032, 496>>,
   <<ALLOCATOR_BUDDY, 1024, 700>>,
   <<ALLOCATOR_BUDDY, 1032, 2400>>}

InitReuse == \E c \in ReuseConfigs : Created(c[1], c[2], c[3], 0)

\* segregated totals 32, 32, 48, 64 and 128 bytes (classes 32, 32, 64, 64, 128);
\* buddy orders 5, 5, 6, 6 and 7
ReuseSizes == {1, 8, 17, 40, 100}

ReuseAlloc(size) ==
  /\ Usable
  /\ steps < MaxReuseSteps
  /\ \E r \in {allocator_alloc(Cur, handle, size)} :
        /\ SetF(r.F)
        /\ live' = IF r.res # NULL THEN live \cup {r.res} ELSE live
        /\ ret' = Call("alloc", handle, NULL, size, r.res)
  /\ pattern' = IF ret.op = "free" THEN pattern ELSE 0
  /\ steps' = steps + 1
  /\ UNCHANGED <<handle, destroyed, resetLive>>

\* free(ptr); the caller notes the request size of the block if it is the one
\* the call before allocated, and keeps the note over the next alloc
ReuseFree(ptr) ==
  /\ Usable
  /\ steps < MaxReuseSteps
  /\ ptr \in live
  /\ SetF(allocator_free(Cur, handle, ptr))
  /\ live' = live \ {ptr}
  /\ ret' = Call("free", handle, ptr, 0, NULL)
  /\ pattern' = IF ret.op = "alloc" /\ ret.res = ptr THEN ret.size ELSE 0
  /\ steps' = steps + 1
  /\ UNCHANGED <<handle, destroyed, resetLive>>

NextReuse ==
  \/ \E size \in ReuseSizes : ReuseAlloc(size)
  \/ \E ptr \in live : ReuseFree(ptr)

SpecReuse == InitReuse /\ [][NextReuse]_vars

(***************************************************************************)
(* Requests at the top of size_t: alloc and free calls with an ordinary     *)
(* request, one larger than the small heaps, and SIZE_MAX, for which the    *)
(* request plus the header wraps around                                     *)
(***************************************************************************)
WrapSizes == {17, 2030, SizeMod - 1}

NextWrap ==
  \/ \E size \in WrapSizes : Alloc(size)
  \/ \E ptr \in live : Free(ptr)

SpecWrap == Init /\ [][NextWrap]_vars

(***************************************************************************)
(* Double free: alloc and free calls as in the reuse rounds, and a second  *)
(* free of the pointer the call before has freed. The run ends with the    *)
(* second free: what later calls do on lists that may hold a block twice   *)
(* is not part of this specification                                       *)
(***************************************************************************)
FreeAgain(ptr) ==
  /\ Usable
  /\ steps < MaxReuseSteps
  /\ ret.op = "free"
  /\ ptr = ret.ptr
  /\ SetF(allocator_free(Cur, handle, ptr))
  /\ ret' = Call("free again", handle, ptr, 0, NULL)
  /\ pattern' = 0
  /\ steps' = steps + 1
  /\ UNCHANGED <<handle, destroyed, live, resetLive>>

NextDouble ==
  \/ ret.op # "free again" /\ \E size \in ReuseSizes : ReuseAlloc(size)
  \/ ret.op # "free again" /\ \E ptr \in live : ReuseFree(ptr)
  \/ \E ptr \in {ret.ptr} : FreeAgain(ptr)

SpecDouble == InitReuse /\ [][NextDouble]_vars

(***************************************************************************)
(* Properties                                                              *)
(***************************************************************************)
Created_ == handle # NULL

\* C1: for either allocator, once every successfully allocated pointer has been
\* freed exactly once (alloc and free calls only, no reset_stats), the counters
\* satisfy total_allocations = total_frees, current_allocated = 0 and
\* current_requested = 0.
C1_BalancedCounters ==
  (Created_ /\ live = {}) =>
    /\ stats.total_allocations = stats.total_frees
    /\ stats.current_allocated = 0
    /\ stats.current_requested = 0

\* at least two blocks were allocated and all of them have been freed
C1_Witness ==
  Created_ /\ live = {} /\ ret.op = "free" /\ stats.total_frees >= 2

\* C2: in every state reached by alloc and free calls (each pointer freed at
\* most once), current_requested <= current_allocated <= stats.heap_size.
C2_RequestedAllocatedHeap ==
  Created_ =>
    /\ stats.current_requested <= stats.current_allocated
    /\ stats.current_allocated <= stats.heap_size

\* two blocks are outstanding after at least one free
C2_Witness ==
  Created_ /\ Cardinality(live) >= 2 /\ stats.total_frees >= 1

PeaksCoverCurrent ==
  /\ stats.peak_allocated >= stats.current_allocated
  /\ stats.peak_requested >= stats.current_requested

\* C3 as stated: in every state reached by any sequence of facade calls,
\* reset_stats with blocks outstanding included, peak_allocated >=
\* current_allocated and peak_requested >= current_requested.
C3_PeaksAlways == Created_ => PeaksCoverCurrent

\* C3 as amended: the same, in every state reached by facade calls among which
\* reset_stats was only ever called with no block outstanding.
C3_PeaksUnlessResetWithLive == (Created_ /\ ~resetLive) => PeaksCoverCurrent

\* a block is allocated after a reset_stats that was called with nothing outstanding
C3_Witness ==
  /\ Created_ /\ ~resetLive
  /\ ret.op = "alloc" /\ ret.res # NULL
  /\ steps = 4 /\ stats.total_allocations = 1 /\ stats.failed_allocations = 0
  /\ stats.total_frees = 0 /\ Cardinality(live) = 1

PointerAlignment == IF hdr.type = ALLOCATOR_BUDDY THEN 16 ELSE 8

\* C4: every non-null pointer returned by alloc is 8-byte aligned for the
\* segregated allocator and 16-byte aligned for the buddy allocator, in every
\* reachable state.
C4_PointersAligned ==
  /\ \A p \in live : p % PointerAlignment = 0
  /\ (ret.op \in {"alloc", "realloc"} /\ ret.res # NULL) =>
       ret.res % PointerAlignment = 0

\* an allocation succeeds after earlier allocations and a free
C4_Witness ==
  /\ ret.op = "alloc" /\ ret.res # NULL
  /\ stats.total_frees >= 1 /\ Cardinality(live) >= 2

\* C5 as stated: on a fresh facade, for a request size s with
\* 1 <= s <= heap_size / 2, no allocation of the loop alloc(s); free(p);
\* alloc(s); free(p); ... fails, however often the pair is repeated.
C5_PatternNeverFails ==
  (Created_ /\ ret.op = "alloc" /\ pattern >= 1 /\ pattern <= stats.heap_size \div 2)
    => ret.res # NULL

\* the size of the header in front of a payload
PerBlockHeader ==
  IF hdr.type = ALLOCATOR_BUDDY THEN SIZEOF_buddy_block_header_t ELSE HEADER_SIZE

\* the first call after create was alloc(s) with 1 <= s <= heap_size - header
FirstAllocInRange ==
  /\ Created_
  /\ steps = 1
  /\ ret.op = "alloc"
  /\ ret.size >= 1
  /\ ret.size <= stats.heap_size - PerBlockHeader

\* C6 as stated: right after a successful create, alloc(s) succeeds for every
\* s with 1 <= s <= heap_size - per-block header size.
C6_FirstAllocSucceeds == FirstAllocInRange => ret.res # NULL

\* the bytes a request of s bytes takes from a fresh heap: buddy, the request
\* and its header; segregated, the request and its header rounded up to 8 and
\* then to the smallest size class that holds it, when there is one
FirstBlockSize(s) ==
  IF hdr.type = ALLOCATOR_BUDDY THEN s + SIZEOF_buddy_block_header_t
  ELSE LET total == ((s + HEADER_SIZE + 7) \div 8) * 8
           classes == {SIZE_CLASSES[i] : i \in DOMAIN SIZE_CLASSES}
           holding == {c \in classes : c >= total}
       IN IF holding = {} THEN total
          ELSE CHOOSE c \in holding : \A d \in holding : c <= d

\* C6 as amended: right after a successful create, alloc(s) for
\* 1 <= s <= heap_size - header succeeds exactly when the block the request is
\* rounded up to is no larger than the heap.
C6_FirstAllocSucceedsIfRoundedFits ==
  FirstAllocInRange => (ret.res # NULL <=> FirstBlockSize(ret.size) <= stats.heap_size)

C6_Witness ==
  /\ FirstAllocInRange
  /\ hdr.type = ALLOCATOR_SEGREGATED_FREELIST
  /\ ret.size = stats.heap_size - PerBlockHeader
  /\ ret.res # NULL
  /\ stats.heap_size < 2048

\* C7: alloc(fac, 0) returns null and changes no counter (failed_allocations
\* included) and no free list, for both allocators and in any state.
C7_AllocZeroNoEffect ==
  [][(ret'.op = "alloc" /\ ret'.alloc # NULL /\ ret'.size = 0)
       => (ret'.res = NULL /\ UNCHANGED <<hdr, stats, impl, mem, host>>)]_vars

C7_Witness ==
  /\ ret.op = "alloc"
  /\ ret.alloc # NULL
  /\ ret.size = 0
  /\ ret.res = NULL
  /\ live # {}
  /\ stats.total_frees >= 1

\* the last call had a null handle, or was a free of the null pointer
NullCall(r) ==
  \/ r.alloc = NULL /\ r.op \in {"alloc", "free", "destroy"}
  \/ r.op = "free" /\ r.ptr = NULL

\* C8: free(fac, null), free(null, ptr), destroy(null) and alloc(null, s) change
\* no allocator state (counters, free lists, ownership), and alloc(null, s)
\* returns null.
C8_NullCallsNoEffect ==
  [][NullCall(ret')
       => /\ UNCHANGED <<hdr, stats, impl, mem, host>>
          /\ ret'.op = "alloc" => ret'.res = NULL]_vars

C8_Witness ==
  /\ ret.op = "free"
  /\ ret.alloc = NULL
  /\ ret.ptr \in live
  /\ stats.total_frees >= 1

\* what the algorithm does with a call is the same with the counters as they
\* are and with the counters cleared by reset_stats
SameAfterReset ==
  /\ \A size \in ReqSizes :
       LET a == allocator_alloc(Cur, handle, size)
           b == allocator_alloc(allocator_reset_stats(Cur, handle), handle, size)
       IN a.res = b.res /\ a.F.impl = b.F.impl /\ a.F.mem = b.F.mem /\ a.F.hdr = b.F.hdr
  /\ \A ptr \in live :
       LET a == allocator_free(Cur, handle, ptr)
           b == allocator_free(allocator_reset_stats(Cur, handle), handle, ptr)
       IN a.impl = b.impl /\ a.mem = b.mem /\ a.hdr = b.hdr

\* C9: reset_stats sets every counter but heap_size to zero and leaves
\* heap_size, the algorithm tag and the algorithm state (free lists, block
\* headers) as they were, so that the calls made after it return the pointers
\* and nulls they would have returned without it.
C9_ResetKeepsAlgorithmState ==
  /\ [][ret'.op = "reset_stats"
          => /\ stats' = [ZeroStats EXCEPT !.heap_size = stats.heap_size]
             /\ UNCHANGED <<hdr, impl, mem, host>>]_vars
  /\ [](Usable => SameAfterReset)

C9_Witness ==
  /\ resetLive
  /\ ret.op = "alloc"
  /\ ret.res # NULL
  /\ stats.total_allocations = 1
  /\ Cardinality(live) >= 2

\* C10: buddy allocator: whenever no allocated block is outstanding,
\* free_lists[max_order] holds exactly one block, the one at base, and the free
\* list of every other order is empty.
C10_AllFreedIsOneBlock ==
  (Created_ /\ hdr.type = ALLOCATOR_BUDDY /\ live = {})
    => /\ impl.free_lists[impl.max_order] = impl.base
       /\ Load64(mem, impl.base) = NULL
       /\ \A k \in DOMAIN impl.free_lists :
            k # impl.max_order => impl.free_lists[k] = NULL

C10_Witness ==
  /\ Created_
  /\ hdr.type = ALLOCATOR_BUDDY
  /\ live = {}
  /\ ret.op = "free"
  /\ stats.total_frees >= 2

\* the least order k >= min_order whose block of 2^k bytes holds s bytes and
\* the header
LeastOrder(s) ==
  CHOOSE k \in impl.min_order..impl.max_order :
    /\ 2 ^ k >= s + SIZEOF_buddy_block_header_t
    /\ \A j \in impl.min_order..(k - 1) : 2 ^ j < s + SIZEOF_buddy_block_header_t

\* C11: buddy allocator: the order stored in the header of every block
\* allocated for a request of s bytes is the least k >= min_order with
\* 2^k >= s + header size, i.e. max(min_order, ceil_log2(s + header size)).
C11_StoredOrderIsLeast ==
  (Created_ /\ hdr.type = ALLOCATOR_BUDDY)
    => /\ \A p \in live :
            Load8(mem, p - SIZEOF_buddy_block_header_t + 4)
              = LeastOrder(Load64(mem, p - SIZEOF_buddy_block_header_t + 8))
       /\ (ret.op \in {"alloc", "realloc"} /\ ret.res # NULL)
            => Load64(mem, ret.res - SIZEOF_buddy_block_header_t + 8) = ret.size

C11_Witness ==
  /\ hdr.type = ALLOCATOR_BUDDY
  /\ ret.op = "alloc"
  /\ ret.size = 48
  /\ ret.res # NULL
  /\ Load8(mem, ret.res - SIZEOF_buddy_block_header_t + 4) = 6
  /\ Cardinality(live) >= 2
  /\ stats.total_frees >= 1

\* the blocks of a linked list of free nodes (the next pointer is the node's
\* first word)
RECURSIVE ListOf(_, _, _)
ListOf(m, head, fuel) ==
  IF head = NULL \/ head = WILD \/ fuel = 0 THEN {}
  ELSE {head} \cup ListOf(m, Load64(m, head), fuel - 1)

\* the free blocks of one order of the buddy allocator
BuddyFree(i, m, k) == ListOf(m, i.free_lists[k], i.heap_size \div 32 + 1)

\* the step is a successful buddy allocation
BuddyAllocStep ==
  /\ hdr.type = ALLOCATOR_BUDDY
  /\ ret'.op = "alloc"
  /\ ret'.alloc # NULL
  /\ ret'.res # NULL

\* the block the step allocated, its order, and the order of the free list it
\* was taken from
AllocatedBlock == ret'.res - SIZEOF_buddy_block_header_t

ChosenOrder == Load8(mem', AllocatedBlock + 4)

SourceOrder ==
  CHOOSE f \in impl.min_order..impl.max_order : impl.free_lists[f] = AllocatedBlock

\* C12 as stated: when an allocation of order k is served by splitting a free
\* block of order f > k, the split creates no free block at any order strictly
\* between k and f.
C12_NoFreeBlockBetween ==
  [][BuddyAllocStep
       => \A j \in (ChosenOrder + 1)..(SourceOrder - 1) :
            BuddyFree(impl', mem', j) \ BuddyFree(impl, mem, j) = {}]_vars

\* C12 as amended: an allocation of order k served from a free block of order
\* f >= k takes that block off list f and adds exactly one free block to each
\* order j with k <= j < f, the upper half at block + 2^j; no other free list
\* changes.
C12_OneUpperHalfPerOrder ==
  [][BuddyAllocStep
       => /\ SourceOrder >= ChosenOrder
          /\ \A j \in impl.min_order..impl.max_order :
               BuddyFree(impl', mem', j) =
                 IF j = SourceOrder THEN BuddyFree(impl, mem, j) \ {AllocatedBlock}
                 ELSE IF ChosenOrder <= j /\ j < SourceOrder
                      THEN BuddyFree(impl, mem, j) \cup {AllocatedBlock + 2 ^ j}
                      ELSE BuddyFree(impl, mem, j)
          /\ \A j \in ChosenOrder..(SourceOrder - 1) :
               AllocatedBlock + 2 ^ j \notin BuddyFree(impl, mem, j)]_vars

\* an order-5 block was cut from the whole heap of order 7 or more, which left
\* free blocks of order 5 and of order 6
C12_Witness ==
  /\ hdr.type = ALLOCATOR_BUDDY
  /\ ret.op = "alloc"
  /\ ret.res # NULL
  /\ Load8(mem, ret.res - SIZEOF_buddy_block_header_t + 4) = 5
  /\ Cardinality(live) = 1
  /\ stats.total_frees >= 1
  /\ BuddyFree(impl, mem, 5) # {}
  /\ BuddyFree(impl, mem, 6) # {}

\* the nodes of the class lists and of the large list of the segregated allocator
ClassFree(i, m, c) == ListOf(m, i.free_lists[c], i.heap_size \div ALIGN_SIZE + 1)

LargeFree(i, m) == ListOf(m, i.large_blocks, i.heap_size \div ALIGN_SIZE + 1)

\* the index of the smallest size class that holds `total` bytes, -1 if none
ClassIndex(total) ==
  IF \E c \in DOMAIN SIZE_CLASSES : SIZE_CLASSES[c] >= total
  THEN CHOOSE c \in DOMAIN SIZE_CLASSES :
         /\ SIZE_CLASSES[c] >= total
         /\ \A d \in DOMAIN SIZE_CLASSES : SIZE_CLASSES[d] >= total => c <= d
  ELSE 0 - 1

\* the step frees an allocated block whose committed size is a class size
ClassFreeStep ==
  /\ hdr.type = ALLOCATOR_SEGREGATED_FREELIST
  /\ ret'.op = "free"
  /\ ret'.alloc # NULL
  /\ ret'.ptr \in live
  /\ \E c \in DOMAIN SIZE_CLASSES : Load64(mem, ret'.ptr - HEADER_SIZE) = SIZE_CLASSES[c]

\* the step allocates for a request whose class list is not empty
ClassAllocStep ==
  /\ hdr.type = ALLOCATOR_SEGREGATED_FREELIST
  /\ ret'.op = "alloc"
  /\ ret'.alloc # NULL
  /\ ret'.size > 0
  /\ ClassIndex(((ret'.size + HEADER_SIZE + 7) \div 8) * 8) >= 0
  /\ impl.free_lists[ClassIndex(((ret'.size + HEADER_SIZE + 7) \div 8) * 8)] # NULL

\* the large list and the sizes of its nodes are as they were
LargeListUntouched ==
  /\ impl'.large_blocks = impl.large_blocks
  /\ LargeFree(impl', mem') = LargeFree(impl, mem)
  /\ \A n \in LargeFree(impl, mem) :
       Load64(mem', n) = Load64(mem, n) /\ Load64(mem', n + 8) = Load64(mem, n + 8)

\* C13: segregated allocator: a freed block whose committed size is
\* SIZE_CLASSES[i] is pushed at the head of free_lists[i]; an allocation whose
\* rounded total maps to class i while free_lists[i] is not empty is served from
\* the head of that list (the most recently freed block first) and leaves the
\* large-block list untouched.
C13_ClassListIsLifo ==
  /\ [][ClassFreeStep
          => LET header == ret'.ptr - HEADER_SIZE
                 c == ClassIndex(Load64(mem, header))
             IN /\ impl'.free_lists[c] = header
                /\ Load64(mem', header) = impl.free_lists[c]
                /\ \A d \in DOMAIN SIZE_CLASSES :
                     d # c => impl'.free_lists[d] = impl.free_lists[d]
                /\ LargeListUntouched]_vars
  /\ [][ClassAllocStep
          => LET c == ClassIndex(((ret'.size + HEADER_SIZE + 7) \div 8) * 8)
                 head == impl.free_lists[c]
             IN /\ ret'.res = head + HEADER_SIZE
                /\ impl'.free_lists[c] = Load64(mem, head)
                /\ \A d \in DOMAIN SIZE_CLASSES :
                     d # c => impl'.free_lists[d] = impl.free_lists[d]
                /\ LargeListUntouched]_vars

\* two blocks of the 32-byte class were freed, the third allocation took the
\* one freed last and the other is still on the list
C13_Witness ==
  /\ hdr.type = ALLOCATOR_SEGREGATED_FREELIST
  /\ ret.op = "alloc"
  /\ ret.size = 8
  /\ ret.res # NULL
  /\ stats.total_allocations = 3
  /\ stats.total_frees = 2
  /\ stats.failed_allocations = 0
  /\ Cardinality(ClassFree(impl, mem, 1)) = 1

\* C14: segregated allocator: no node on a class list or on the large-block
\* list has a size below 16 bytes; a split remainder smaller than 16 bytes is
\* never linked into a list.
C14_NoNodeBelowMinimum ==
  (Created_ /\ hdr.type = ALLOCATOR_SEGREGATED_FREELIST)
    => /\ \A n \in LargeFree(impl, mem) : Load64(mem, n + 8) >= SIZE_CLASSES[0]
       /\ \A c \in DOMAIN SIZE_CLASSES :
            \A n \in ClassFree(impl, mem, c) : Load64(mem, n + 8) >= SIZE_CLASSES[0]

\* a 104-byte heap from which 32 and 64 bytes were cut: the 8 bytes left over
\* are on no list
C14_Witness ==
  /\ hdr.type = ALLOCATOR_SEGREGATED_FREELIST
  /\ stats.heap_size = 104
  /\ stats.total_allocations = 2
  /\ stats.total_frees = 0
  /\ stats.current_requested = 48
  /\ LargeFree(impl, mem) = {}

\* C15: for either allocator, an alloc(s) with s > 0 that returns null adds
\* exactly one to failed_allocations and changes no other counter and no free
\* list; a successful alloc leaves failed_allocations as it was.
C15_FailureCountedOnce ==
  [][(ret'.op = "alloc" /\ ret'.alloc # NULL /\ ret'.size > 0)
       => IF ret'.res = NULL
          THEN /\ stats' = [stats EXCEPT !.failed_allocations = @ + 1]
               /\ UNCHANGED <<hdr, impl, mem, host>>
          ELSE stats'.failed_allocations = stats.failed_allocations]_vars

C15_Witness ==
  /\ ret.op = "alloc"
  /\ ret.alloc # NULL
  /\ ret.size > 0
  /\ ret.res = NULL
  /\ stats.failed_allocations = 2
  /\ Cardinality(live) >= 1

\* the step is a free(fac, ptr) with both arguments non-null
FreeStep == ret'.op = "free" /\ ret'.alloc # NULL /\ ret'.ptr # NULL

\* the header in front of ptr, as the allocator's kind lays it out
MagicOk(ptr) ==
  IF hdr.type = ALLOCATOR_BUDDY
  THEN Load32(mem, ptr - SIZEOF_buddy_block_header_t) = BUDDY_MAGIC
  ELSE Load32(mem, ptr - HEADER_SIZE + 16) = BLOCK_MAGIC

OrderOk(ptr) ==
  /\ Load8(mem, ptr - SIZEOF_buddy_block_header_t + 4) >= impl.min_order
  /\ Load8(mem, ptr - SIZEOF_buddy_block_header_t + 4) <= impl.max_order

\* C16: a free whose preceding header has a wrong magic value (either
\* allocator), or a buddy free whose header order lies outside
\* [min_order, max_order], changes no counter and no free list.
C16_BadHeaderFreeNoEffect ==
  [][(FreeStep /\ (~MagicOk(ret'.ptr)
                     \/ (hdr.type = ALLOCATOR_BUDDY /\ ~OrderOk(ret'.ptr))))
       => UNCHANGED <<hdr, stats, impl, mem, host>>]_vars

\* a buddy free of a header with the right magic and an order above max_order
C16_Witness ==
  /\ hdr.type = ALLOCATOR_BUDDY
  /\ ret.op = "free"
  /\ ret.ptr \in {PayloadOf(a) : a \in CallerBuffers}
  /\ MagicOk(ret.ptr)
  /\ Load8(mem, ret.ptr - SIZEOF_buddy_block_header_t + 4) > impl.max_order
  /\ live # {}

\* C17 as stated: buddy allocator: a free whose header passes the magic and
\* order checks but whose block lies outside [base, base + heap_size) changes
\* neither the free lists nor any counter.
C17_OutOfRangeFreeNoEffect ==
  [][(/\ FreeStep
      /\ hdr.type = ALLOCATOR_BUDDY
      /\ MagicOk(ret'.ptr)
      /\ OrderOk(ret'.ptr)
      /\ \/ ret'.ptr - SIZEOF_buddy_block_header_t < impl.base
         \/ ret'.ptr - SIZEOF_buddy_block_header_t >= impl.base + impl.heap_size)
       => UNCHANGED <<hdr, stats, impl, mem, host>>]_vars

\* the facade after the step
After == [hdr |-> hdr', stats |-> stats', impl |-> impl', mem |-> mem', host |-> host']

\* C18: realloc(fac, null, n) has the effect and the result of alloc(fac, n);
\* realloc(fac, ptr, 0) with ptr non-null has the effect of free(fac, ptr) and
\* returns null; realloc(fac, ptr, n) with ptr non-null, n > 0 and a successful
\* allocation leaves counters and free lists as alloc(fac, n) followed by
\* free(fac, ptr) does and returns that alloc's pointer.
C18_ReallocIsAllocThenFree ==
  [][(ret'.op = "realloc" /\ ret'.alloc # NULL)
       => LET a == allocator_alloc(Cur, ret'.alloc, ret'.size)
          IN /\ ret'.ptr = NULL => (After = a.F /\ ret'.res = a.res)
             /\ (ret'.ptr # NULL /\ ret'.size = 0)
                  => /\ After = allocator_free(Cur, ret'.alloc, ret'.ptr)
                     /\ ret'.res = NULL
             /\ (ret'.ptr # NULL /\ ret'.size > 0 /\ a.res # NULL)
                  => /\ After = allocator_free(a.F, ret'.alloc, ret'.ptr)
                     /\ ret'.res = a.res]_vars

\* a realloc of an outstanding block to a new size that succeeded, in a state
\* with a block freed before
C18_Witness ==
  /\ ret.op = "realloc"
  /\ ret.ptr # NULL
  /\ ret.size > 0
  /\ ret.res # NULL
  /\ ret.res # ret.ptr
  /\ stats.total_frees >= 2

\* the region's start rounded up to 16, where the facade header is placed
HeaderBase(region) == ((region + 15) \div 16) * 16

\* the initializer of the tag's algorithm, run on what is left of the region
\* behind the header, refuses it
InitializerRefuses(type, region, size) ==
  LET base == HeaderBase(region)
      sub == base + SIZEOF_allocator_t
      sub_size == size - (base - region) - SIZEOF_allocator_t
      st0 == [stats |-> ZeroStats, impl |-> NoImpl, mem |-> EmptyMem]
  IN /\ region # NULL
     /\ sub_size >= 0
     /\ \/ type = ALLOCATOR_SEGREGATED_FREELIST
           /\ ~segregated_freelist_init(st0, base, sub, sub_size).ok
        \/ type = ALLOCATOR_BUDDY
           /\ ~buddy_allocator_init(st0, base, sub, sub_size).ok

\* C19: create returns null when the region is null, when memory_size cannot
\* hold the facade header after the base is aligned up to 16 bytes, when the tag
\* is neither segregated nor buddy, or when the algorithm's initializer refuses
\* the implementation sub-region; when create returns non-null, the impl pointer
\* and the three dispatch slots are set and the implementation sub-region lies
\* inside [region, region + memory_size), behind the header.
C19_CreateOutcome ==
  ret.op = "create"
    => /\ ret.res = handle
       /\ ret.ptr = NULL => handle = NULL
       /\ HeaderBase(ret.ptr) + SIZEOF_allocator_t > ret.ptr + ret.size => handle = NULL
       /\ ret.type \notin Types => handle = NULL
       /\ InitializerRefuses(ret.type, ret.ptr, ret.size) => handle = NULL
       /\ handle # NULL
            => /\ handle = HeaderBase(ret.ptr)
               /\ hdr.impl # NULL
               /\ hdr.destroy_impl # "NULL"
               /\ hdr.alloc_impl # "NULL"
               /\ hdr.free_impl # "NULL"
               /\ hdr.impl_region >= handle + SIZEOF_allocator_t
               /\ hdr.impl_region_size >= 0
               /\ hdr.impl_region + hdr.impl_region_size <= ret.ptr + ret.size

\* a buddy facade created over a region that does not start on a 16-byte
\* boundary
C19_Witness ==
  /\ ret.op = "create"
  /\ ret.type = ALLOCATOR_BUDDY
  /\ ret.ptr % 16 = 8
  /\ handle # NULL
  /\ hdr.impl_region + hdr.impl_region_size = ret.ptr + ret.size

\* C20: a backing region acquired by create_with_malloc is released to the host
\* heap exactly once: at once when the inner create fails and null is returned,
\* otherwise by destroy; a region the caller passed to create is never released
\* by destroy; owns_real_memory is false after create and true only after a
\* successful create_with_malloc.
C20_BackingReleasedOnce ==
  /\ host.backing # NULL
       => host.released = (IF handle = NULL \/ destroyed THEN 1 ELSE 0)
  /\ host.backing = NULL => host.released = 0
  /\ handle # NULL => (hdr.owns_real_memory <=> host.backing # NULL)
  /\ ret.op = "create" => host.backing = NULL
  /\ (ret.op = "create_with_malloc" /\ ret.ptr # NULL) => host.backing = ret.ptr

\* a facade made by create_with_malloc was destroyed
C20_Witness ==
  /\ host.backing # NULL
  /\ handle # NULL
  /\ hdr.owns_real_memory
  /\ destroyed
  /\ host.released = 1


\* the statistics keep the heap_size they had
HeapSizeKept == [][stats'.heap_size = stats.heap_size]_vars

\* C21 as stated: after a successful create, stats.heap_size equals the size of
\* the implementation sub-region handed to the algorithm (impl_region_size), and
\* no later operation (alloc, free, realloc, reset_stats) changes it.
C21_HeapSizeIsImplRegion ==
  /\ [](Created_ => stats.heap_size = hdr.impl_region_size)
  /\ HeapSizeKept


\* the step is the third call of a round: alloc(size) follows the free of the
\* block that an alloc(pattern), the call before the free, returned
ReuseStep ==
  /\ ret.op = "free"
  /\ pattern # 0
  /\ ret'.op = "alloc"

\* C22: buddy allocator: in any reachable state, if p = alloc(s) succeeds and
\* is followed immediately by free(p) and then alloc(s), the second alloc
\* succeeds and returns the same address p.
C22_BuddyReusesBlock ==
  [][(ReuseStep /\ hdr.type = ALLOCATOR_BUDDY /\ ret'.size = pattern)
       => ret'.res = ret.ptr]_vars

\* a round in a state with two other blocks outstanding, whose block had been
\* split off a larger one
C22_Witness ==
  /\ hdr.type = ALLOCATOR_BUDDY
  /\ ret.op = "alloc"
  /\ ret.res # NULL
  /\ pattern # 0
  /\ ret.size = pattern
  /\ Cardinality(live) = 3
  /\ \A p \in live : p <= ret.res
  /\ Load8(mem, ret.res - SIZEOF_buddy_block_header_t + 4) < impl.max_order - 2

\* C23 as stated: segregated allocator: if p = alloc(s) succeeds, is followed
\* immediately by free(p) and then by alloc(s') where s and s' map to the same
\* size class, the second alloc succeeds and returns the same address p.
C23_SegReusesBlock ==
  [][(/\ ReuseStep
      /\ hdr.type = ALLOCATOR_SEGREGATED_FREELIST
      /\ ClassIndex(((ret'.size + HEADER_SIZE + 7) \div 8) * 8)
           = ClassIndex(((pattern + HEADER_SIZE + 7) \div 8) * 8))
       => ret'.res = ret.ptr]_vars


\* C24: buddy allocator: in every reachable state, every block on
\* free_lists[k] has min_order <= k <= max_order, lies entirely inside
\* [base, base + heap_size), and its offset from base is a multiple of 2^k.
C24_FreeBlocksAlignedInHeap ==
  (Created_ /\ hdr.type = ALLOCATOR_BUDDY)
    => \A k \in DOMAIN impl.free_lists :
         \A b \in BuddyFree(impl, mem, k) :
            /\ impl.min_order <= k
            /\ k <= impl.max_order
            /\ impl.base <= b
            /\ b + 2 ^ k <= impl.base + impl.heap_size
            /\ (b - impl.base) % (2 ^ k) = 0

\* free blocks of three orders, two of them of one order, after a free that
\* merged and one that did not
C24_Witness ==
  /\ hdr.type = ALLOCATOR_BUDDY
  /\ stats.total_frees >= 1
  /\ live # {}
  /\ Cardinality({k \in DOMAIN impl.free_lists : BuddyFree(impl, mem, k) # {}}) >= 3
  /\ \E k \in DOMAIN impl.free_lists : Cardinality(BuddyFree(impl, mem, k)) >= 2


\* C25: buddy allocator: in every state reachable by allocs and valid frees,
\* for every order k < max_order no block on free_lists[k] has its XOR-buddy
\* (offset XOR 2^k) also on free_lists[k].
C25_NoFreeBuddyPair ==
  (Created_ /\ hdr.type = ALLOCATOR_BUDDY)
    => \A k \in impl.min_order..(impl.max_order - 1) :
         \A b \in BuddyFree(impl, mem, k) :
            LET offset == b - impl.base
                buddy_off == IF (offset \div 2 ^ k) % 2 = 0
                             THEN offset + 2 ^ k ELSE offset - 2 ^ k
            IN impl.base + buddy_off \notin BuddyFree(impl, mem, k)

\* the last call freed a block whose buddy is allocated: it stays on the list
\* of its order next to another free block of that order, which is not its
\* buddy
C25_Witness ==
  /\ hdr.type = ALLOCATOR_BUDDY
  /\ ret.op = "free"
  /\ live # {}
  /\ \E k \in impl.min_order..(impl.max_order - 1) :
       /\ Cardinality(BuddyFree(impl, mem, k)) = 2
       /\ impl.free_lists[k] = ret.ptr - SIZEOF_buddy_block_header_t


\* the step frees an allocated block whose committed size is no class size
InexactFreeStep ==
  /\ hdr.type = ALLOCATOR_SEGREGATED_FREELIST
  /\ ret'.op = "free"
  /\ ret'.alloc # NULL
  /\ ret'.ptr \in live
  /\ \A c \in DOMAIN SIZE_CLASSES : Load64(mem, ret'.ptr - HEADER_SIZE) # SIZE_CLASSES[c]

\* C26: segregated allocator: in every reachable state, every node on
\* free_lists[i] has recorded size exactly SIZE_CLASSES[i]; a freed block whose
\* committed size equals no class size goes to the head of the large-block list
\* instead.
C26_ClassNodesHaveClassSize ==
  /\ []((Created_ /\ hdr.type = ALLOCATOR_SEGREGATED_FREELIST)
          => \A c \in DOMAIN SIZE_CLASSES :
               \A n \in ClassFree(impl, mem, c) : Load64(mem, n + 8) = SIZE_CLASSES[c])
  /\ [][InexactFreeStep
          => LET header == ret'.ptr - HEADER_SIZE
             IN /\ impl'.large_blocks = header
                /\ Load64(mem', header) = impl.large_blocks
                /\ Load64(mem', header + 8) = Load64(mem, header)
                /\ impl'.free_lists = impl.free_lists]_vars

\* a 48-byte block was freed to the large list while a block of the 32-byte
\* class and one of the 64-byte class are on their class lists
C26_Witness ==
  /\ hdr.type = ALLOCATOR_SEGREGATED_FREELIST
  /\ ret.op = "free"
  /\ impl.large_blocks = ret.ptr - HEADER_SIZE
  /\ Load64(mem, impl.large_blocks + 8) = 48
  /\ ClassFree(impl, mem, 1) # {}
  /\ ClassFree(impl, mem, 2) # {}


\* the step is a successful segregated allocation whose rounded total maps to
\* a size class
ClassServedStep ==
  /\ hdr.type = ALLOCATOR_SEGREGATED_FREELIST
  /\ ret'.op = "alloc"
  /\ ret'.alloc # NULL
  /\ ret'.res # NULL
  /\ ClassIndex(((ret'.size + HEADER_SIZE + 7) \div 8) * 8) >= 0

\* C27 as stated: segregated allocator: for an allocation served for size class
\* i (popped from free_lists[i] or cut from the large-block list), the committed
\* size written to the block header and the amount added to current_allocated
\* both equal SIZE_CLASSES[i], the number of bytes taken from the heap for the
\* block.
C27_CommittedIsClassSize ==
  [][ClassServedStep
       => LET c == ClassIndex(((ret'.size + HEADER_SIZE + 7) \div 8) * 8)
          IN /\ Load64(mem', ret'.res - HEADER_SIZE) = SIZE_CLASSES[c]
             /\ stats'.current_allocated = stats.current_allocated + SIZE_CLASSES[c]]_vars


\* the larger of two numbers
Larger(a, b) == IF a >= b THEN a ELSE b

\* C28: for either allocator, after any sequence of alloc and free calls since
\* creation or the last reset_stats with no blocks outstanding, peak_requested
\* equals the maximum value current_requested has taken and peak_allocated
\* equals the maximum value current_allocated has taken: both pairs are zero
\* after creation and after such a reset, and every alloc and free leaves each
\* peak at the larger of its old value and the new current value.
C28_PeaksAreRunningMaxima ==
  /\ []((Created_ /\ (ret.op = "create" \/ (ret.op = "reset_stats" /\ live = {})))
          => /\ stats.current_requested = 0
             /\ stats.peak_requested = 0
             /\ stats.current_allocated = 0
             /\ stats.peak_allocated = 0)
  /\ [][(ret'.op \in {"alloc", "free"} /\ ret'.alloc # NULL /\ ~resetLive)
          => /\ stats'.peak_requested
                  = Larger(stats.peak_requested, stats'.current_requested)
             /\ stats'.peak_allocated
                  = Larger(stats.peak_allocated, stats'.current_allocated)]_vars

\* after a free the current values are below the peaks that two outstanding
\* blocks had set, and an alloc has not raised them again
C28_Witness ==
  /\ ret.op = "alloc"
  /\ ret.res # NULL
  /\ ~resetLive
  /\ stats.total_frees >= 1
  /\ stats.current_requested > 0
  /\ stats.peak_requested > stats.current_requested
  /\ stats.peak_allocated > stats.current_allocated

\* the second example of C28: in the loop alloc(s), free, alloc(s), ... the peak
\* of the committed bytes is what one block commits
PatternPeakIsOneBlock ==
  (Created_ /\ stats.total_allocations >= 1)
    => /\ stats.peak_requested = pattern
       /\ stats.peak_allocated
            = IF hdr.type = ALLOCATOR_BUDDY THEN 2 ^ LeastOrder(pattern)
              ELSE ((pattern + HEADER_SIZE + 7) \div 8) * 8


\* the 16-byte-aligned end of the buddy state struct and the end of the
\* implementation region
AfterState == ((hdr.impl + SIZEOF_buddy_impl_t + 15) \div 16) * 16

RegionEnd == hdr.impl_region + hdr.impl_region_size

\* the addresses at or after the state struct that are multiples of 2^k and
\* leave 2^k bytes before the end of the region
HeapPlaces(k) ==
  IF k > WordBits THEN {}
  ELSE {a \in AfterState..RegionEnd : a % (2 ^ k) = 0 /\ a + 2 ^ k <= RegionEnd}

\* C29: buddy init: on success, max_order is the largest k in [min_order, 31]
\* for which a 2^k-aligned address at or after the 16-byte-aligned end of the
\* state struct leaves 2^k bytes before the region end; base is that address
\* (aligned to 2^max_order), heap_size = 2^max_order, [base, base + heap_size)
\* lies inside the region and does not overlap the state struct, and the only
\* free block is base on free_lists[max_order].
C29_BuddyInitLargestHeap ==
  (Created_ /\ hdr.type = ALLOCATOR_BUDDY /\ ret.op = "create")
    => /\ impl.max_order \in impl.min_order..(BUDDY_MAX_ORDERS - 1)
       /\ HeapPlaces(impl.max_order) # {}
       /\ \A k \in (impl.max_order + 1)..(BUDDY_MAX_ORDERS - 1) : HeapPlaces(k) = {}
       /\ impl.base \in HeapPlaces(impl.max_order)
       /\ \A a \in HeapPlaces(impl.max_order) : impl.base <= a
       /\ impl.heap_size = 2 ^ impl.max_order
       /\ hdr.impl_region <= hdr.impl
       /\ hdr.impl + SIZEOF_buddy_impl_t <= impl.base
       /\ impl.base + impl.heap_size <= RegionEnd
       /\ \A k \in DOMAIN impl.free_lists :
            impl.free_lists[k] = IF k = impl.max_order THEN impl.base ELSE NULL
       /\ Load64(mem, impl.base) = NULL

\* a region whose free span behind the state struct is at least 256 bytes long
\* but holds no 256-byte block at a multiple of 256: the heap is one of 128
C29_Witness ==
  /\ Created_
  /\ hdr.type = ALLOCATOR_BUDDY
  /\ ret.op = "create"
  /\ RegionEnd - AfterState >= 256
  /\ impl.max_order = 7
  /\ impl.base > AfterState


\* the orders whose blocks hold s bytes and the header and whose free list is
\* not empty
ServingOrders(s) ==
  {k \in impl.min_order..impl.max_order :
     2 ^ k >= s + SIZEOF_buddy_block_header_t /\ impl.free_lists[k] # NULL}

\* C30: buddy alloc(s) with s > 0 returns a block iff some free list of order k
\* in [max(min_order, ceil_log2(s + header size)), max_order] is non-empty; it
\* then takes the head of the lowest such non-empty list, and otherwise returns
\* null.
C30_LowestNonEmptyList ==
  [][(/\ hdr.type = ALLOCATOR_BUDDY
      /\ ret'.op = "alloc"
      /\ ret'.alloc # NULL
      /\ ret'.size > 0)
       => /\ ret'.res # NULL <=> ServingOrders(ret'.size) # {}
          /\ ServingOrders(ret'.size) # {}
               => \E k \in ServingOrders(ret'.size) :
                    /\ \A j \in ServingOrders(ret'.size) : k <= j
                    /\ ret'.res = impl.free_lists[k] + SIZEOF_buddy_block_header_t
                    /\ impl'.free_lists[k] = Load64(mem, impl.free_lists[k])]_vars

\* an allocation of the lowest order while blocks of that order and of higher
\* orders were free, some returned by earlier frees
C30_Witness ==
  /\ hdr.type = ALLOCATOR_BUDDY
  /\ ret.op = "alloc"
  /\ ret.res # NULL
  /\ stats.total_frees >= 1
  /\ Cardinality(live) >= 2
  /\ Load8(mem, ret.res - SIZEOF_buddy_block_header_t + 4) = impl.min_order
  /\ BuddyFree(impl, mem, impl.min_order) # {}
  /\ \E k \in (impl.min_order + 1)..impl.max_order : BuddyFree(impl, mem, k) # {}


\* the blocks of a linked list of free nodes, in list order
RECURSIVE ListSeq(_, _, _)
ListSeq(m, head, fuel) ==
  IF head = NULL \/ head = WILD \/ fuel = 0 THEN << >>
  ELSE <<head>> \o ListSeq(m, Load64(m, head), fuel - 1)

\* the free list of one order of the buddy allocator, head first
BuddySeq(i, m, k) == ListSeq(m, i.free_lists[k], i.heap_size \div 32 + 1)

\* the lowest order from k up whose free list is not empty
PoppedOrder(k) ==
  CHOOSE f \in k..impl.max_order :
    /\ impl.free_lists[f] # NULL
    /\ \A j \in k..(f - 1) : impl.free_lists[j] = NULL

\* C31: a buddy alloc that pops a free block B of order f for a request of
\* order k <= f pushes exactly one new free block at each order j in [k, f-1],
\* located at offset 2^j from B's base, returns the block that starts at B's
\* base, and changes no other free-list entry.
C31_SplitPushesUpperHalves ==
  [][BuddyAllocStep
       => LET k == ChosenOrder
              f == PoppedOrder(k)
              B == impl.free_lists[f]
          IN /\ ret'.res = B + SIZEOF_buddy_block_header_t
             /\ \A j \in DOMAIN impl.free_lists :
                  BuddySeq(impl', mem', j) =
                    IF j = f THEN Tail(BuddySeq(impl, mem, f))
                    ELSE IF k <= j /\ j < f
                         THEN <<B + 2 ^ j>> \o BuddySeq(impl, mem, j)
                         ELSE BuddySeq(impl, mem, j)]_vars

\* a block of the lowest order cut from a free block three orders up, after an
\* earlier free and while another block is outstanding
C31_Witness ==
  /\ hdr.type = ALLOCATOR_BUDDY
  /\ ret.op = "alloc"
  /\ ret.res # NULL
  /\ stats.total_frees >= 1
  /\ live # {ret.res}
  /\ Load8(mem, ret.res - SIZEOF_buddy_block_header_t + 4) = impl.min_order
  /\ \A j \in impl.min_order..(impl.min_order + 2) :
       /\ Len(BuddySeq(impl, mem, j)) = 1
       /\ BuddySeq(impl, mem, j)[1] = ret.res - SIZEOF_buddy_block_header_t + 2 ^ j


\* the large-block list of the segregated allocator, head first
LargeSeq(i, m) == ListSeq(m, i.large_blocks, i.heap_size \div ALIGN_SIZE + 1)

\* the rounded total of the request of the step
TotalOfStep == ((ret'.size + HEADER_SIZE + 7) \div 8) * 8

\* the bytes a request has to find in a node of the large list
NeededOfStep ==
  IF ClassIndex(TotalOfStep) >= 0 THEN SIZE_CLASSES[ClassIndex(TotalOfStep)]
  ELSE TotalOfStep

\* the step allocates for a request that no class list can serve
LargeCutStep ==
  /\ hdr.type = ALLOCATOR_SEGREGATED_FREELIST
  /\ ret'.op = "alloc"
  /\ ret'.alloc # NULL
  /\ ret'.size > 0
  /\ ClassIndex(TotalOfStep) >= 0 => impl.free_lists[ClassIndex(TotalOfStep)] = NULL

\* the sequence without its i-th element
Without(s, i) == SubSeq(s, 1, i - 1) \o SubSeq(s, i + 1, Len(s))

\* C32: a segregated alloc that has to cut from the large-block list is served
\* from the first node in list order whose size is at least the needed size
\* (SIZE_CLASSES[i] for a class request, the aligned total for an oversize
\* request); that node is detached, the served block starts at the node's
\* address, a remainder of 16 bytes or more becomes a new node at the head of the
\* large-block list, and the call fails if no node is that large.
C32_FirstFitFromLargeList ==
  [][LargeCutStep
       => LET L == LargeSeq(impl, mem)
              fits == {i \in 1..Len(L) : Load64(mem, L[i] + 8) >= NeededOfStep}
          IN IF fits = {}
             THEN /\ ret'.res = NULL
                  /\ LargeSeq(impl', mem') = L
                  /\ \A i \in 1..Len(L) : Load64(mem', L[i] + 8) = Load64(mem, L[i] + 8)
             ELSE LET i == CHOOSE x \in fits : \A y \in fits : x <= y
                      rest == Without(L, i)
                      remaining == Load64(mem, L[i] + 8) - NeededOfStep
                  IN /\ ret'.res = L[i] + HEADER_SIZE
                     /\ \A j \in 1..Len(rest) :
                          Load64(mem', rest[j] + 8) = Load64(mem, rest[j] + 8)
                     /\ IF remaining >= 16
                        THEN /\ LargeSeq(impl', mem') = <<L[i] + NeededOfStep>> \o rest
                             /\ Load64(mem', L[i] + NeededOfStep + 8) = remaining
                        ELSE LargeSeq(impl', mem') = rest]_vars

\* a request beyond the largest class has been cut from the second node of the
\* large list, behind a node too small for it, and the remainder heads the list
C32_Witness ==
  /\ hdr.type = ALLOCATOR_SEGREGATED_FREELIST
  /\ ret.op = "alloc"
  /\ ret.res # NULL
  /\ ClassIndex(((ret.size + HEADER_SIZE + 7) \div 8) * 8) < 0
  /\ Len(LargeSeq(impl, mem)) = 2
  /\ LargeSeq(impl, mem)[1] = ret.res - HEADER_SIZE + Load64(mem, ret.res - HEADER_SIZE)
  /\ LargeSeq(impl, mem)[2] < ret.res


\* the block whose offset from the heap base differs from b's in bit k only
XorBuddy(b, k) ==
  IF ((b - impl.base) \div 2 ^ k) % 2 = 0 THEN b + 2 ^ k ELSE b - 2 ^ k

\* the free lists after block b of order k has been given back to the lists S:
\* merged with its buddy as long as the buddy is on the list of the current
\* order, then put in front of the list of the order reached
RECURSIVE MergedInto(_, _, _)
MergedInto(S, b, k) ==
  IF k < impl.max_order /\ \E i \in 1..Len(S[k]) : S[k][i] = XorBuddy(b, k)
  THEN LET i == CHOOSE x \in 1..Len(S[k]) : S[k][x] = XorBuddy(b, k)
       IN MergedInto([S EXCEPT ![k] = Without(@, i)],
                     IF XorBuddy(b, k) < b THEN XorBuddy(b, k) ELSE b, k + 1)
  ELSE [S EXCEPT ![k] = <<b>> \o @]

\* the step frees an outstanding block of the buddy allocator
BuddyFreeStep ==
  /\ hdr.type = ALLOCATOR_BUDDY
  /\ ret'.op = "free"
  /\ ret'.alloc # NULL
  /\ ret'.ptr \in live

\* C33: a buddy free of a valid block of order k merges repeatedly: while the
\* current order is below max_order and the XOR-buddy of the current block is on
\* that order's free list, the buddy is removed, the merged block takes the lower
\* of the two addresses and the order rises by one; the final block is pushed at
\* the head of the free list of the final order, and no other free-list entry is
\* added or removed.
C33_FreeMergesUpward ==
  [][BuddyFreeStep
       => LET b == ret'.ptr - SIZEOF_buddy_block_header_t
              k == Load8(mem, b + 4)
              S == [j \in DOMAIN impl.free_lists |-> BuddySeq(impl, mem, j)]
          IN \A j \in DOMAIN impl.free_lists :
               BuddySeq(impl', mem', j) = MergedInto(S, b, k)[j]]_vars

\* the freed block has been merged with its buddy and the merged block, whose
\* own buddy is allocated, is the only entry of the list one order up
C33_Witness ==
  /\ hdr.type = ALLOCATOR_BUDDY
  /\ ret.op = "free"
  /\ live # {}
  /\ \E k \in (impl.min_order + 1)..(impl.max_order - 1) :
       /\ BuddySeq(impl, mem, k) = <<ret.ptr - SIZEOF_buddy_block_header_t>>
       /\ LeastOrder(Load64(mem, ret.ptr - 8)) = k - 1
       /\ BuddySeq(impl, mem, k - 1) = << >>
       /\ XorBuddy(ret.ptr - SIZEOF_buddy_block_header_t, k) + SIZEOF_buddy_block_header_t \in live


\* the bytes of the header in front of the payload at ptr
HeaderBytes(m, ptr) ==
  IF hdr.type = ALLOCATOR_BUDDY
  THEN <<Load32(m, ptr - 16), Load8(m, ptr - 12), Load64(m, ptr - 8)>>
  ELSE <<Load64(m, ptr - 24), Load64(m, ptr - 16), Load32(m, ptr - 8)>>

\* the step is a realloc of an outstanding block to a size above zero that
\* returned null
FailedReallocStep ==
  /\ ret'.op = "realloc"
  /\ ret'.alloc # NULL
  /\ ret'.ptr \in live
  /\ ret'.size > 0
  /\ ret'.res = NULL

\* C34: when realloc(fac, ptr, n) with non-null ptr and n > 0 cannot allocate the
\* new block, it returns null, the old block stays allocated (its header, and
\* current_allocated, current_requested and total_frees, are unchanged and it can
\* still be freed once), and the only counter that changes is failed_allocations.
C34_FailedReallocKeepsBlock ==
  [][FailedReallocStep
       => /\ stats' = [stats EXCEPT !.failed_allocations = stats.failed_allocations + 1]
          /\ HeaderBytes(mem', ret'.ptr) = HeaderBytes(mem, ret'.ptr)
          /\ impl' = impl
          /\ mem' = mem
          /\ ret'.ptr \in live'
          /\ LET G == allocator_free(After, ret'.alloc, ret'.ptr)
             IN /\ G.stats.total_frees = stats.total_frees + 1
                /\ G.impl # impl]_vars

\* a realloc of one of two outstanding blocks has failed, after an earlier free
C34_Witness ==
  /\ ret.op = "realloc"
  /\ ret.ptr \in live
  /\ ret.size > 0
  /\ ret.res = NULL
  /\ stats.failed_allocations >= 1
  /\ stats.total_frees >= 1
  /\ Cardinality(live) = 2


\* the outstanding blocks of the buddy allocator, each with the order its header
\* holds
BuddyAllocated ==
  {[a |-> p - SIZEOF_buddy_block_header_t,
    k |-> Load8(mem, p - SIZEOF_buddy_block_header_t + 4)] : p \in live}

\* the blocks on the free lists of the buddy allocator, each with the order of
\* its list
BuddyOnLists ==
  UNION {{[a |-> b, k |-> j] : b \in BuddyFree(impl, mem, j)} : j \in DOMAIN impl.free_lists}

\* the sum of 2^order over a set of blocks
RECURSIVE SumOfBlocks(_)
SumOfBlocks(B) ==
  IF B = {} THEN 0
  ELSE LET x == CHOOSE y \in B : TRUE IN 2 ^ x.k + SumOfBlocks(B \ {x})

\* C35: buddy allocator: in every state reachable by allocs and valid frees the
\* outstanding allocated blocks and the blocks on all free lists are pairwise
\* disjoint and together cover [base, base + heap_size) exactly, so the sum of
\* 2^order over free and allocated blocks equals heap_size.
C35_BlocksTileHeap ==
  (Created_ /\ hdr.type = ALLOCATOR_BUDDY)
    => \E A \in {BuddyAllocated} : \E L \in {BuddyOnLists} :
         /\ \A j \in DOMAIN impl.free_lists :
              Len(BuddySeq(impl, mem, j)) = Cardinality(BuddyFree(impl, mem, j))
         /\ \A x \in A : \A y \in L : x.a # y.a
         /\ \A x, y \in A \cup L :
              x # y => (x.a + 2 ^ x.k <= y.a \/ y.a + 2 ^ y.k <= x.a)
         /\ \A x \in A \cup L :
              impl.base <= x.a /\ x.a + 2 ^ x.k <= impl.base + impl.heap_size
         /\ \A n \in 0..(impl.heap_size \div 2 ^ impl.min_order - 1) :
              \E x \in A \cup L :
                /\ x.a <= impl.base + n * 2 ^ impl.min_order
                /\ impl.base + (n + 1) * 2 ^ impl.min_order <= x.a + 2 ^ x.k
         /\ SumOfBlocks(A \cup L) = impl.heap_size

\* two outstanding blocks of two orders and free blocks of two orders, after a
\* free
C35_Witness ==
  /\ hdr.type = ALLOCATOR_BUDDY
  /\ stats.total_frees >= 1
  /\ Cardinality(BuddyAllocated) = 2
  /\ Cardinality({x.k : x \in BuddyAllocated}) = 2
  /\ Cardinality({x.k : x \in BuddyOnLists}) >= 2


\* the byte ranges [lo, hi) of the outstanding blocks of the segregated
\* allocator: the header and the payload of the requested size
SegAllocated ==
  {[lo |-> p - HEADER_SIZE, hi |-> p + Load64(mem, p - HEADER_SIZE + 8)] : p \in live}

\* the nodes on the lists of the segregated allocator
SegNodes ==
  LargeFree(impl, mem) \cup UNION {ClassFree(impl, mem, c) : c \in DOMAIN impl.free_lists}

\* the byte ranges [lo, hi) of the nodes: the recorded size from the address on
SegOnLists == {[lo |-> n, hi |-> n + Load64(mem, n + 8)] : n \in SegNodes}

\* the number of entries of all lists of the segregated allocator
RECURSIVE ClassEntries(_)
ClassEntries(c) ==
  IF c < 0 THEN 0
  ELSE Len(ListSeq(mem, impl.free_lists[c], impl.heap_size \div ALIGN_SIZE + 1))
         + ClassEntries(c - 1)

\* the sum of a function over a finite set
RECURSIVE SumOver(_, _)
SumOver(f, S) ==
  IF S = {} THEN 0 ELSE LET x == CHOOSE y \in S : TRUE IN f[x] + SumOver(f, S \ {x})

\* C36: segregated allocator: in every state reachable by allocs and valid frees
\* the byte ranges of all outstanding allocated blocks (header plus payload of
\* the requested size) and of all free-list nodes (address to address + recorded
\* size) are pairwise disjoint and lie inside [heap, heap + heap_size); hence the
\* sum of free node sizes plus committed sizes of outstanding blocks never
\* exceeds heap_size.
C36_RangesDisjointInHeap ==
  (Created_ /\ hdr.type = ALLOCATOR_SEGREGATED_FREELIST)
    => \E A \in {SegAllocated} : \E L \in {SegOnLists} :
         /\ Len(LargeSeq(impl, mem)) + ClassEntries(NUM_SIZE_CLASSES - 1)
              = Cardinality(SegNodes)
         /\ \A x \in A : \A y \in L : x.lo # y.lo
         /\ \A x, y \in A \cup L : x # y => (x.hi <= y.lo \/ y.hi <= x.lo)
         /\ \A x \in A \cup L :
              impl.heap <= x.lo /\ x.lo < x.hi /\ x.hi <= impl.heap + impl.heap_size
         /\ SumOver([n \in SegNodes |-> Load64(mem, n + 8)], SegNodes)
              + SumOver([p \in live |-> Load64(mem, p - HEADER_SIZE)], live)
              <= impl.heap_size

\* two outstanding blocks, nodes on a class list and on the large list, after
\* two frees
C36_Witness ==
  /\ hdr.type = ALLOCATOR_SEGREGATED_FREELIST
  /\ Cardinality(live) = 2
  /\ stats.total_frees >= 2
  /\ LargeFree(impl, mem) # {}
  /\ \E c \in DOMAIN impl.free_lists : ClassFree(impl, mem, c) # {}


\* C37: buddy allocator: in any reachable state, a successful p = alloc(s)
\* immediately followed by free(p) restores every free list to exactly its
\* content and order before the alloc, and restores current_allocated and
\* current_requested to their previous values.
C37_AllocFreeRestoresLists ==
  [][(BuddyAllocStep /\ ret'.res # NULL)
       => LET G == allocator_free(After, ret'.alloc, ret'.res)
          IN /\ \A j \in DOMAIN impl.free_lists :
                  BuddySeq(G.impl, G.mem, j) = BuddySeq(impl, mem, j)
             /\ G.stats.current_allocated = stats.current_allocated
             /\ G.stats.current_requested = stats.current_requested
             /\ G.impl.free_lists # impl'.free_lists]_vars

\* the block the call before had allocated has been freed, with another block
\* outstanding and free blocks of three orders or more
C37_Witness ==
  /\ hdr.type = ALLOCATOR_BUDDY
  /\ ret.op = "free"
  /\ pattern # 0
  /\ live # {}
  /\ Cardinality({j \in DOMAIN impl.free_lists : impl.free_lists[j] # NULL}) >= 3


\* the committed size of the block in front of the payload at ptr: 2^order for
\* the buddy allocator, the committed_size field for the segregated one
CommittedOf(ptr) ==
  IF hdr.type = ALLOCATOR_BUDDY
  THEN 2 ^ Load8(mem, ptr - SIZEOF_buddy_block_header_t + 4)
  ELSE Load64(mem, ptr - HEADER_SIZE)

\* the size of the block header of the allocator
HeaderSize ==
  IF hdr.type = ALLOCATOR_BUDDY THEN SIZEOF_buddy_block_header_t ELSE HEADER_SIZE

\* C38: for either allocator and every request size s representable in size_t,
\* including sizes for which s + header size wraps around, a successful alloc(s)
\* returns a block whose committed size is at least s + header size, and a
\* request too large for the heap returns null.
C38_PayloadFitsBlock ==
  (Created_ /\ ret.op = "alloc" /\ ret.alloc # NULL /\ ret.size > 0)
    => /\ ret.res # NULL => CommittedOf(ret.res) >= ret.size + HeaderSize
       /\ ret.size + HeaderSize > stats.heap_size => ret.res = NULL


\* the step frees again the pointer that the call before has freed
FreeAgainStep == ret'.op = "free again"

\* the lists of the segregated allocator that the block heads
HeadedBy(i, b) ==
  {c \in DOMAIN i.free_lists : i.free_lists[c] = b}
    \cup (IF i.large_blocks = b THEN {NUM_SIZE_CLASSES} ELSE {})

====
